---------------------------- MODULE Spec2Model ----------------------------
(***************************************************************************)
(* Model of the three agents of examples/: SimpleAgent (simple_agent.py),  *)
(* ModelBasedAgent (model_based_agent.py) and LLMAgent (llm_agent.py).     *)
(*                                                                         *)
(* Python strings that the code searches, lower-cases, cuts or joins are   *)
(* modelled as sequences of one-character strings, so that `in`, replace,  *)
(* strip and the f-strings are computed character by character.  Symbolic  *)
(* values that the code only compares for equality (action names, the      *)
(* categories of the world model, dictionary keys) are TLA+ strings.       *)
(*                                                                         *)
(* Each agent has its own specification (SpecModel, SpecSimple, SpecLLM),  *)
(* and so has the calculate tool (SpecCalc), simulate_llm_response         *)
(* (SpecSimulate) and update_model (SpecUpdate), each called once on one   *)
(* of its inputs; the variables of the others stay at their initial value. *)
(***************************************************************************)
EXTENDS Integers, Sequences, FiniteSets, TLC

VARIABLES
    \* ModelBasedAgent
    m_model,          \* self.model
    m_actions_taken,  \* self.actions_taken
    m_action,         \* what the last act() returned ("none" before the first)
    m_lastCall,       \* observer: the most recent call on the agent
    m_script,         \* observer: progress of the driver through Scenario
    m_returned,       \* observer: the actions returned along Scenario
    \* SimpleAgent
    s_percepts,       \* self.percepts
    s_actions_taken,  \* self.actions_taken
    s_action,         \* what the last act() returned
    \* LLMAgent
    l_names,          \* the keys of self.tools, in dict order
    l_tools,          \* self.tools: name -> Tool
    l_memory,         \* self.memory
    l_result,         \* what the last call returned
    l_invoked,        \* observer: the handler calls of the last call
    l_raised,         \* observer: the last call ended with an exception
    l_history,        \* observer: the tools registered so far, in call order
    l_op,             \* observer: the last call and its arguments
    \* calculate
    c_expression,     \* the argument of the call
    c_pc,             \* "call" before calculate runs, "returned" after
    c_result,         \* what calculate returned
    \* simulate_llm_response
    p_prompt,         \* the argument of the call
    p_pc,             \* "call" before simulate_llm_response runs, "returned" after
    p_response,       \* the dict it returned
    \* update_model
    u_before,         \* self.model before the call
    u_percept,        \* the argument of the call
    u_pc,             \* "call" before update_model runs, "returned" after
    u_after           \* self.model after the call

m_vars == <<m_model, m_actions_taken, m_action, m_lastCall, m_script, m_returned>>
s_vars == <<s_percepts, s_actions_taken, s_action>>
l_vars == <<l_names, l_tools, l_memory, l_result, l_invoked, l_raised, l_history, l_op>>
c_vars == <<c_expression, c_pc, c_result>>
p_vars == <<p_prompt, p_pc, p_response>>
u_vars == <<u_before, u_percept, u_pc, u_after>>
vars == <<m_vars, s_vars, l_vars, c_vars, p_vars, u_vars>>

(***************************************************************************)
(* Texts: the literals the agents search for and the percepts the driver   *)
(* passes in.                                                              *)
(***************************************************************************)

\* the literals update_model looks for
T_cold == <<"c", "o", "l", "d">>
T_hot == <<"h", "o", "t">>
T_dark == <<"d", "a", "r", "k">>
T_bright == <<"b", "r", "i", "g", "h", "t">>
T_noise == <<"n", "o", "i", "s", "e">>
T_danger == <<"d", "a", "n", "g", "e", "r">>
T_smoke == <<"s", "m", "o", "k", "e">>
T_morning == <<"m", "o", "r", "n", "i", "n", "g">>
T_night == <<"n", "i", "g", "h", "t">>
T_hungry == <<"h", "u", "n", "g", "r", "y">>

\* The percepts of the end-to-end scenario, in order.
Scenario == << T_cold, T_dark, T_noise, T_hungry, T_danger >>

\* The environment states of the example run.
ExampleStates == {
    <<"T", "h", "e", " ", "r", "o", "o", "m", " ", "i", "s", " ", "g", "e", "t", "t", "i", "n", "g", " ", "c", "o", "l", "d", " ", "a", "s", " ", "n", "i", "g", "h", "t", " ", "a", "p", "p", "r", "o", "a", "c", "h", "e", "s">>,
    <<"I", "t", "'", "s", " ", "c", "o", "m", "p", "l", "e", "t", "e", "l", "y", " ", "d", "a", "r", "k", " ", "n", "o", "w">>,
    <<"T", "h", "e", "r", "e", " ", "i", "s", " ", "a", " ", "s", "t", "r", "a", "n", "g", "e", " ", "n", "o", "i", "s", "e", " ", "c", "o", "m", "i", "n", "g", " ", "f", "r", "o", "m", " ", "o", "u", "t", "s", "i", "d", "e">>,
    <<"T", "h", "e", " ", "n", "o", "i", "s", "e", " ", "s", "t", "o", "p", "p", "e", "d", " ", "b", "u", "t", " ", "y", "o", "u", " ", "f", "e", "e", "l", " ", "h", "u", "n", "g", "r", "y">>,
    <<"M", "o", "r", "n", "i", "n", "g", " ", "a", "r", "r", "i", "v", "e", "s", " ", "a", "n", "d", " ", "t", "h", "e", " ", "r", "o", "o", "m", " ", "i", "s", " ", "b", "r", "i", "g", "h", "t">>,
    <<"T", "h", "e", "r", "e", "'", "s", " ", "s", "m", "o", "k", "e", " ", "i", "n", " ", "t", "h", "e", " ", "r", "o", "o", "m", " ", "-", " ", "d", "a", "n", "g", "e", "r", "!">> }

\* The percepts the driver passes to perceive(): every literal alone, the
\* example states, percepts with several literals, with none, and with a
\* literal in another letter case or inside a longer word.
Percepts ==
    { T_cold, T_hot, T_dark, T_bright, T_noise, T_danger, T_smoke,
      T_morning, T_night, T_hungry }
    \cup ExampleStates
    \cup { << >>, <<"a", "l", "l", " ", "c", "a", "l", "m">>, <<"D", "A", "N", "G", "E", "R">>, <<"S", "m", "o", "k", "e">>, <<"p", "h", "o", "t", "o">>,
           <<"c", "o", "l", "d", " ", "h", "o", "t">>, <<"b", "r", "i", "g", "h", "t", " ", "d", "a", "r", "k">>, <<"n", "i", "g", "h", "t", " ", "m", "o", "r", "n", "i", "n", "g">>, <<"h", "u", "n", "g", "r", "y", " ", "d", "a", "n", "g", "e", "r">>,
           <<"n", "o", "i", "s", "e", " ", "s", "m", "o", "k", "e">>, <<"b", "r", "i", "g", "h", "t", " ", "n", "i", "g", "h", "t">>, <<"d", "a", "r", "k", " ", "c", "o", "l", "d", " ", "n", "o", "i", "s", "e", " ", "h", "u", "n", "g", "r", "y">> }

T_tired == <<"t", "i", "r", "e", "d">>


\* The environment states of the example run.
SimpleExampleStates == {
    <<"T", "h", "e", " ", "r", "o", "o", "m", " ", "i", "s", " ", "d", "a", "r", "k", " ", "a", "n", "d", " ", "c", "o", "l", "d">>,
    <<"T", "h", "e", "r", "e", " ", "i", "s", " ", "a", " ", "s", "t", "r", "a", "n", "g", "e", " ", "n", "o", "i", "s", "e", " ", "c", "o", "m", "i", "n", "g", " ", "f", "r", "o", "m", " ", "o", "u", "t", "s", "i", "d", "e">>,
    <<"T", "h", "e", " ", "r", "o", "o", "m", " ", "i", "s", " ", "n", "o", "w", " ", "b", "r", "i", "g", "h", "t", " ", "b", "u", "t", " ", "g", "e", "t", "t", "i", "n", "g", " ", "h", "o", "t">>,
    <<"E", "v", "e", "r", "y", "t", "h", "i", "n", "g", " ", "s", "e", "e", "m", "s", " ", "n", "o", "r", "m", "a", "l">>,
    <<"T", "h", "e", "r", "e", "'", "s", " ", "s", "m", "o", "k", "e", " ", "i", "n", " ", "t", "h", "e", " ", "r", "o", "o", "m", " ", "-", " ", "d", "a", "n", "g", "e", "r", "!">> }

\* The percepts the driver passes to perceive(): every condition alone, the
\* example states, and percepts with two or more conditions in either order.
SimplePercepts ==
    { T_hot, T_cold, T_dark, T_bright, T_hungry, T_tired, T_noise, T_danger }
    \cup SimpleExampleStates
    \cup { << >>, <<"H", "o", "t">>, <<"c", "o", "l", "d", " ", "h", "o", "t">>, <<"d", "a", "n", "g", "e", "r", " ", "n", "o", "i", "s", "e">>, <<"t", "i", "r", "e", "d", " ", "h", "u", "n", "g", "r", "y">>,
           <<"n", "o", "i", "s", "e", " ", "t", "i", "r", "e", "d", " ", "d", "a", "r", "k">>, <<"d", "a", "n", "g", "e", "r", " ", "h", "o", "t">>, <<"b", "r", "i", "g", "h", "t", " ", "c", "o", "l", "d">> }

\* the literals the two reflex agents search their percepts for
PerceptLiterals ==
    { T_cold, T_hot, T_dark, T_bright, T_noise, T_danger, T_smoke,
      T_morning, T_night, T_hungry, T_tired }

(***************************************************************************)
(* Python str operations on sequences of characters.                       *)
(***************************************************************************)

\* sub in s, computed on the characters
Contains(sub, s) ==
    \E i \in 0..(Len(s) - Len(sub)) : SubSeq(s, i + 1, i + Len(sub)) = sub

\* Contains for every percept and literal of the reflex agents, computed once
Found == [s \in Percepts \cup SimplePercepts |-> {t \in PerceptLiterals : Contains(t, s)}]

\* sub in s
In(sub, s) ==
    IF s \in DOMAIN Found /\ sub \in PerceptLiterals THEN sub \in Found[s]
    ELSE Contains(sub, s)

\* str.lower(), on the letters the inputs use
LowerOf ==
    [ A |-> "a", B |-> "b", C |-> "c", D |-> "d", E |-> "e", F |-> "f", G |-> "g",
      H |-> "h", I |-> "i", J |-> "j", K |-> "k", L |-> "l", M |-> "m", N |-> "n",
      O |-> "o", P |-> "p", Q |-> "q", R |-> "r", S |-> "s", T |-> "t", U |-> "u",
      V |-> "v", W |-> "w", X |-> "x", Y |-> "y", Z |-> "z" ]

Lower(s) == [i \in 1..Len(s) |-> IF s[i] \in DOMAIN LowerOf THEN LowerOf[s[i]] ELSE s[i]]

\* s.replace(old, new), old not empty: the occurrences of old, found from the
\* left and not overlapping, each replaced by new
RECURSIVE Replace(_, _, _)
Replace(s, old, new) ==
    IF Len(s) < Len(old) THEN s
    ELSE IF SubSeq(s, 1, Len(old)) = old
         THEN new \o Replace(SubSeq(s, Len(old) + 1, Len(s)), old, new)
         ELSE << s[1] >> \o Replace(Tail(s), old, new)

\* the characters str.strip() and the regex class \s take for whitespace
Whitespace == { " ", "\t", "\n", "\r", "\f" }

\* a text of one tab character
Tab == << "\t" >>

RECURSIVE LStrip(_)
LStrip(s) == IF s # << >> /\ s[1] \in Whitespace THEN LStrip(Tail(s)) ELSE s

RECURSIVE RStrip(_)
RStrip(s) ==
    IF s # << >> /\ s[Len(s)] \in Whitespace THEN RStrip(SubSeq(s, 1, Len(s) - 1)) ELSE s

\* s.strip()
Strip(s) == RStrip(LStrip(s))

Digits == { "0", "1", "2", "3", "4", "5", "6", "7", "8", "9" }

DigitValue ==
    [ c \in Digits |->
        CASE c = "0" -> 0 [] c = "1" -> 1 [] c = "2" -> 2 [] c = "3" -> 3 [] c = "4" -> 4
          [] c = "5" -> 5 [] c = "6" -> 6 [] c = "7" -> 7 [] c = "8" -> 8 [] c = "9" -> 9 ]

DigitChar == << "0", "1", "2", "3", "4", "5", "6", "7", "8", "9" >>

\* the first position from i on that is not in class (Len(s) + 1 if none)
RECURSIVE SkipClass(_, _, _)
SkipClass(s, i, class) ==
    IF i <= Len(s) /\ s[i] \in class THEN SkipClass(s, i + 1, class) ELSE i

\* re: \d+\s*[\+\-\*\/]\s*\d+ matched at position i: the position after the
\* match, or 0 when there is no match at i.  Every quantifier is greedy and
\* none can give back a character to let the rest match.
ArithmeticMatchEnd(s, i) ==
    LET afterLeft == SkipClass(s, i, Digits)
        atOp == SkipClass(s, afterLeft, Whitespace)
        atRight == SkipClass(s, atOp + 1, Whitespace)
        afterRight == SkipClass(s, atRight, Digits)
    IN  IF /\ afterLeft > i
           /\ atOp <= Len(s)
           /\ s[atOp] \in { "+", "-", "*", "/" }
           /\ afterRight > atRight
        THEN afterRight ELSE 0

\* re.search(r'\d+\s*[\+\-\*\/]\s*\d+', s): match.group(0) of the leftmost
\* match, or None
ArithmeticSearch(s) ==
    LET starts == { i \in 1..Len(s) : ArithmeticMatchEnd(s, i) > 0 }
    IN  IF starts = {} THEN [found |-> FALSE, group |-> << >>]
        ELSE LET i == CHOOSE a \in starts : \A b \in starts : a <= b
             IN  [found |-> TRUE, group |-> SubSeq(s, i, ArithmeticMatchEnd(s, i) - 1)]

\* str(n) of an int n >= 0
RECURSIVE NatToStr(_)
NatToStr(n) ==
    IF n < 10 THEN << DigitChar[n + 1] >> ELSE NatToStr(n \div 10) \o << DigitChar[(n % 10) + 1] >>

\* str(n) of an int
IntToStr(n) == IF n < 0 THEN << "-" >> \o NatToStr(-n) ELSE NatToStr(n)

\* int(s) of a string of digits
RECURSIVE StrToNat(_)
StrToNat(s) ==
    IF s = << >> THEN 0 ELSE 10 * StrToNat(SubSeq(s, 1, Len(s) - 1)) + DigitValue[s[Len(s)]]

(***************************************************************************)
(* ModelBasedAgent                                                         *)
(***************************************************************************)

\* bound on model["last_meal"] (hours), which "hungry" raises without limit
MaxMeal == 8
\* bound on actions_taken, which act() raises without limit
MaxActions == 5

InitModel ==
    [ room_temperature |-> "normal",
      room_lighting |-> "normal",
      noise_level |-> "quiet",
      danger_present |-> FALSE,
      time_of_day |-> "day",
      last_meal |-> 0,
      energy_level |-> 100 ]

\* self.action_effects with an escape that does not clear danger_present
ActionEffectsEscapeKeepsDanger ==
    [ turn_on_ac |-> << <<"room_temperature", "normal">>, <<"energy_level", -5>> >>,
      turn_on_heater |-> << <<"room_temperature", "normal">>, <<"energy_level", -5>> >>,
      turn_on_light |-> << <<"room_lighting", "normal">>, <<"energy_level", -1>> >>,
      close_blinds |-> << <<"room_lighting", "normal">>, <<"energy_level", -1>> >>,
      investigate_noise |-> << <<"noise_level", "quiet">>, <<"energy_level", -10>> >>,
      eat_food |-> << <<"last_meal", 0>>, <<"energy_level", 30>> >>,
      rest |-> << <<"energy_level", 50>> >>,
      escape |-> << <<"energy_level", -20>> >> ]

\* self.action_effects: action -> the (key, value) items of its descriptor
ActionEffects ==
    [ turn_on_ac |-> << <<"room_temperature", "normal">>, <<"energy_level", -5>> >>,
      turn_on_heater |-> << <<"room_temperature", "normal">>, <<"energy_level", -5>> >>,
      turn_on_light |-> << <<"room_lighting", "normal">>, <<"energy_level", -1>> >>,
      close_blinds |-> << <<"room_lighting", "normal">>, <<"energy_level", -1>> >>,
      investigate_noise |-> << <<"noise_level", "quiet">>, <<"energy_level", -10>> >>,
      eat_food |-> << <<"last_meal", 0>>, <<"energy_level", 30>> >>,
      rest |-> << <<"energy_level", 50>> >>,
      escape |-> << <<"danger_present", FALSE>>, <<"energy_level", -20>> >> ]

\* update_model without the floor of energy_level at 0
UpdateModelNoFloor(m, percept) ==
    LET m1 == IF In(T_cold, percept) THEN [m EXCEPT !.room_temperature = "cold"]
              ELSE IF In(T_hot, percept) THEN [m EXCEPT !.room_temperature = "hot"]
              ELSE m
        m2 == IF In(T_dark, percept) THEN [m1 EXCEPT !.room_lighting = "dark"]
              ELSE IF In(T_bright, percept) THEN [m1 EXCEPT !.room_lighting = "bright"]
              ELSE m1
        m3 == IF In(T_noise, percept) THEN [m2 EXCEPT !.noise_level = "noisy"] ELSE m2
        m4 == IF In(T_danger, percept) \/ In(T_smoke, percept)
              THEN [m3 EXCEPT !.danger_present = TRUE] ELSE m3
        m5 == IF In(T_morning, percept) THEN [m4 EXCEPT !.time_of_day = "morning"]
              ELSE IF In(T_night, percept) THEN [m4 EXCEPT !.time_of_day = "night"]
              ELSE m4
        m6 == IF In(T_hungry, percept) THEN [m5 EXCEPT !.last_meal = @ + 4] ELSE m5
    IN  [m6 EXCEPT !.energy_level = @ - 2]

\* update_model(percept)
UpdateModel(m, percept) ==
    LET m1 == IF In(T_cold, percept) THEN [m EXCEPT !.room_temperature = "cold"]
              ELSE IF In(T_hot, percept) THEN [m EXCEPT !.room_temperature = "hot"]
              ELSE m
        m2 == IF In(T_dark, percept) THEN [m1 EXCEPT !.room_lighting = "dark"]
              ELSE IF In(T_bright, percept) THEN [m1 EXCEPT !.room_lighting = "bright"]
              ELSE m1
        m3 == IF In(T_noise, percept) THEN [m2 EXCEPT !.noise_level = "noisy"] ELSE m2
        m4 == IF In(T_danger, percept) \/ In(T_smoke, percept)
              THEN [m3 EXCEPT !.danger_present = TRUE] ELSE m3
        m5 == IF In(T_morning, percept) THEN [m4 EXCEPT !.time_of_day = "morning"]
              ELSE IF In(T_night, percept) THEN [m4 EXCEPT !.time_of_day = "night"]
              ELSE m4
        m6 == IF In(T_hungry, percept) THEN [m5 EXCEPT !.last_meal = @ + 4] ELSE m5
        m7 == [m6 EXCEPT !.energy_level = @ - 2]
    IN  IF m7.energy_level < 0 THEN [m7 EXCEPT !.energy_level = 0] ELSE m7

\* think() with the energy check put before the danger check
ThinkRestFirst(m) ==
    IF m.energy_level < 20 THEN "rest"
    ELSE IF m.danger_present THEN "escape"
    ELSE IF m.last_meal > 6 THEN "eat_food"
    ELSE IF m.room_temperature = "cold" THEN "turn_on_heater"
    ELSE IF m.room_temperature = "hot" THEN "turn_on_ac"
    ELSE IF m.room_lighting = "dark" /\ m.time_of_day # "night" THEN "turn_on_light"
    ELSE IF m.room_lighting = "bright" /\ m.time_of_day = "night" THEN "close_blinds"
    ELSE IF m.noise_level = "noisy" THEN "investigate_noise"
    ELSE "do_nothing"

\* think() with the two critical-need checks in the other order
ThinkMealFirst(m) ==
    IF m.danger_present THEN "escape"
    ELSE IF m.last_meal > 6 THEN "eat_food"
    ELSE IF m.energy_level < 20 THEN "rest"
    ELSE IF m.room_temperature = "cold" THEN "turn_on_heater"
    ELSE IF m.room_temperature = "hot" THEN "turn_on_ac"
    ELSE IF m.room_lighting = "dark" /\ m.time_of_day # "night" THEN "turn_on_light"
    ELSE IF m.room_lighting = "bright" /\ m.time_of_day = "night" THEN "close_blinds"
    ELSE IF m.noise_level = "noisy" THEN "investigate_noise"
    ELSE "do_nothing"

\* think() with the noise check put before the resource and comfort checks
ThinkNoiseFirst(m) ==
    IF m.danger_present THEN "escape"
    ELSE IF m.noise_level = "noisy" THEN "investigate_noise"
    ELSE IF m.energy_level < 20 THEN "rest"
    ELSE IF m.last_meal > 6 THEN "eat_food"
    ELSE IF m.room_temperature = "cold" THEN "turn_on_heater"
    ELSE IF m.room_temperature = "hot" THEN "turn_on_ac"
    ELSE IF m.room_lighting = "dark" /\ m.time_of_day # "night" THEN "turn_on_light"
    ELSE IF m.room_lighting = "bright" /\ m.time_of_day = "night" THEN "close_blinds"
    ELSE "do_nothing"

\* think()
Think(m) ==
    IF m.danger_present THEN "escape"
    ELSE IF m.energy_level < 20 THEN "rest"
    ELSE IF m.last_meal > 6 THEN "eat_food"
    ELSE IF m.room_temperature = "cold" THEN "turn_on_heater"
    ELSE IF m.room_temperature = "hot" THEN "turn_on_ac"
    ELSE IF m.room_lighting = "dark" /\ m.time_of_day # "night" THEN "turn_on_light"
    ELSE IF m.room_lighting = "bright" /\ m.time_of_day = "night" THEN "close_blinds"
    ELSE IF m.noise_level = "noisy" THEN "investigate_noise"
    ELSE "do_nothing"

\* for key, value in self.action_effects[action].items(): self.model[key] = value
RECURSIVE ApplyEffects(_, _)
ApplyEffects(m, items) ==
    IF items = << >> THEN m
    ELSE ApplyEffects([m EXCEPT ![Head(items)[1]] = Head(items)[2]], Tail(items))

\* act() that puts the model back to its first values for an action with no
\* descriptor
ActModelReset(m, action) ==
    IF action \in DOMAIN ActionEffects THEN ApplyEffects(m, ActionEffects[action])
    ELSE InitModel

\* the model after act() has executed `action`
ActModel(m, action) ==
    IF action \in DOMAIN ActionEffects THEN ApplyEffects(m, ActionEffects[action])
    ELSE m

\* the driver's position in Scenario after one more call: 2k calls done means
\* k complete perceive(p).act() cycles; -1 means the run is not the scenario
ScriptAfterPerceive(n, percept) ==
    IF n \in 0..(2 * Len(Scenario) - 1) /\ n % 2 = 0 /\ percept = Scenario[(n \div 2) + 1]
    THEN n + 1 ELSE -1

ScriptAfterAct(n) == IF n >= 0 /\ n % 2 = 1 THEN n + 1 ELSE -1

\* a percept with a danger-class token
DangerClass(percept) == In(T_danger, percept) \/ In(T_smoke, percept)

\* perceive(environment_state)
Perceive(percept) ==
    LET updated == UpdateModel(m_model, percept)
        script == ScriptAfterPerceive(m_script, percept)
    IN  /\ updated.last_meal <= MaxMeal
        /\ m_model' = updated
        /\ m_lastCall' = [op |-> "perceive", danger |-> DangerClass(percept)]
        /\ m_script' = script
        /\ m_returned' = IF script > 0 THEN m_returned ELSE << >>
        /\ UNCHANGED <<m_actions_taken, m_action>>

\* act()
Act ==
    LET action == Think(m_model)
        script == ScriptAfterAct(m_script)
    IN  /\ m_actions_taken < MaxActions
        /\ m_action' = action
        /\ m_actions_taken' = m_actions_taken + 1
        /\ m_model' = ActModel(m_model, action)
        /\ m_lastCall' = [op |-> "act",
                          danger |-> m_lastCall.op = "perceive" /\ m_lastCall.danger]
        /\ m_script' = script
        /\ m_returned' = IF script > 0 THEN Append(m_returned, action) ELSE << >>

MInit ==
    /\ m_model = InitModel
    /\ m_actions_taken = 0
    /\ m_action = "none"
    /\ m_lastCall = [op |-> "init", danger |-> FALSE]
    /\ m_script = 0
    /\ m_returned = << >>

(***************************************************************************)
(* SimpleAgent                                                             *)
(***************************************************************************)

\* self.rules with the first two rules declared in the other order
RulesColdFirst ==
    << <<T_cold, "turn_on_heater">>,
       <<T_hot, "turn_on_ac">>,
       <<T_dark, "turn_on_light">>,
       <<T_bright, "close_blinds">>,
       <<T_hungry, "find_food">>,
       <<T_tired, "rest">>,
       <<T_noise, "investigate">>,
       <<T_danger, "escape">> >>

\* self.rules, in the order the dict literal declares them
Rules ==
    << <<T_hot, "turn_on_ac">>,
       <<T_cold, "turn_on_heater">>,
       <<T_dark, "turn_on_light">>,
       <<T_bright, "close_blinds">>,
       <<T_hungry, "find_food">>,
       <<T_tired, "rest">>,
       <<T_noise, "investigate">>,
       <<T_danger, "escape">> >>

\* bound on len(self.percepts), which perceive() raises without limit
MaxPercepts == 2
\* bound on actions_taken, which act() raises without limit
MaxSimpleActions == 2

\* for condition, action in self.rules.items(): the scan from rule i on
RECURSIVE ScanRules(_, _)
ScanRules(i, current_percept) ==
    IF i > Len(Rules) THEN "do_nothing"
    ELSE IF In(Rules[i][1], current_percept) THEN Rules[i][2]
    ELSE ScanRules(i + 1, current_percept)

\* think()
SimpleThink(percepts) ==
    IF percepts = << >> THEN "do_nothing"
    ELSE ScanRules(1, percepts[Len(percepts)])

\* perceive(environment_state)
SimplePerceive(percept) ==
    /\ Len(s_percepts) < MaxPercepts
    /\ s_percepts' = Append(s_percepts, percept)
    /\ UNCHANGED <<s_actions_taken, s_action>>

\* act()
SimpleAct ==
    /\ s_actions_taken < MaxSimpleActions
    /\ s_action' = SimpleThink(s_percepts)
    /\ s_actions_taken' = s_actions_taken + 1
    /\ UNCHANGED s_percepts

SInit ==
    /\ s_percepts = << >>
    /\ s_actions_taken = 0
    /\ s_action = "none"

(***************************************************************************)
(* The calculate tool: eval(expression, {"__builtins__": {}})              *)
(*                                                                         *)
(* Python's eval is modelled on the expressions of these forms (spaces     *)
(* allowed between tokens):                                                *)
(*     [sign] atom                     atom: an integer literal, a name,   *)
(*     [sign] atom op [sign] atom            or a call name()              *)
(*     ( integer ) . name              op: + - * / // % **                 *)
(* A text of no such form is a SyntaxError here, which is what Python      *)
(* makes of every text in CalcInputs that has none of these forms.         *)
(***************************************************************************)

Letters ==
    { "a", "b", "c", "d", "e", "f", "g", "h", "i", "j", "k", "l", "m", "n", "o",
      "p", "q", "r", "s", "t", "u", "v", "w", "x", "y", "z", "_" }

\* Python keywords among the names of the inputs
Keywords == { <<"i", "m", "p", "o", "r", "t">>, <<"l", "a", "m", "b", "d", "a">>, <<"i", "f">>, <<"e", "l", "s", "e">> }

\* the tokens of the text from position i on
RECURSIVE Tokens(_, _)
Tokens(s, i) ==
    IF i > Len(s) THEN << >>
    ELSE IF s[i] \in Whitespace THEN Tokens(s, i + 1)
    ELSE IF s[i] \in Digits THEN
        LET j == SkipClass(s, i, Digits)
            text == SubSeq(s, i, j - 1)
            \* a decimal literal may start with 0 only if it is all zeros
            valid == text[1] # "0" \/ \A k \in 1..Len(text) : text[k] = "0"
        IN  << IF valid THEN [kind |-> "int", value |-> StrToNat(text)]
               ELSE [kind |-> "bad", value |-> 0] >> \o Tokens(s, j)
    ELSE IF s[i] \in Letters THEN
        LET j == SkipClass(s, i, Letters \cup Digits)
            text == SubSeq(s, i, j - 1)
        IN  << IF text \in Keywords THEN [kind |-> "bad", value |-> 0]
               ELSE [kind |-> "name", value |-> text] >> \o Tokens(s, j)
    ELSE IF s[i] \in { "*", "/" } /\ i < Len(s) /\ s[i + 1] = s[i] THEN
        << [kind |-> "op", value |-> << s[i], s[i] >>] >> \o Tokens(s, i + 2)
    ELSE IF s[i] \in { "+", "-", "*", "/", "%" } THEN
        << [kind |-> "op", value |-> << s[i] >>] >> \o Tokens(s, i + 1)
    ELSE IF s[i] \in { "(", ")", "." } THEN
        << [kind |-> s[i], value |-> 0] >> \o Tokens(s, i + 1)
    ELSE << [kind |-> "bad", value |-> 0] >> \o Tokens(s, i + 1)

\* Python values: an int, or a float held as the exact quotient num / den
PyInt(n) == [type |-> "int", num |-> n, den |-> 1]
PyFloat(n, d) == [type |-> "float", num |-> n, den |-> d]

\* the outcome of an evaluation: a value, or the exception raised
Returned(v) == [ok |-> TRUE, value |-> v, error |-> << >>]
Raised(message) == [ok |-> FALSE, value |-> PyInt(0), error |-> message]

\* (the message of a SyntaxError names the kind of error; one text stands for all)
SyntaxError == Raised(<<"i", "n", "v", "a", "l", "i", "d", " ", "s", "y", "n", "t", "a", "x", " ", "(", "<", "s", "t", "r", "i", "n", "g", ">", ",", " ", "l", "i", "n", "e", " ", "1", ")">>)
NameError(name) == Raised(<<"n", "a", "m", "e", " ", "'">> \o name \o <<"'", " ", "i", "s", " ", "n", "o", "t", " ", "d", "e", "f", "i", "n", "e", "d">>)

RECURSIVE Power(_, _)
Power(a, n) == IF n = 0 THEN 1 ELSE a * Power(a, n - 1)

FloorDiv(a, b) == IF b > 0 THEN a \div b ELSE (-a) \div (-b)

\* a op b on ints
Arith(a, op, b) ==
    CASE op = <<"+">> -> Returned(PyInt(a + b))
      [] op = <<"-">> -> Returned(PyInt(a - b))
      [] op = <<"*">> -> Returned(PyInt(a * b))
      [] op = <<"/">> -> IF b = 0 THEN Raised(<<"d", "i", "v", "i", "s", "i", "o", "n", " ", "b", "y", " ", "z", "e", "r", "o">>)
                      ELSE Returned(PyFloat(a, b))
      [] op = <<"/", "/">> -> IF b = 0 THEN Raised(<<"i", "n", "t", "e", "g", "e", "r", " ", "d", "i", "v", "i", "s", "i", "o", "n", " ", "o", "r", " ", "m", "o", "d", "u", "l", "o", " ", "b", "y", " ", "z", "e", "r", "o">>)
                       ELSE Returned(PyInt(FloorDiv(a, b)))
      [] op = <<"%">> -> IF b = 0 THEN Raised(<<"i", "n", "t", "e", "g", "e", "r", " ", "m", "o", "d", "u", "l", "o", " ", "b", "y", " ", "z", "e", "r", "o">>)
                      ELSE Returned(PyInt(a - b * FloorDiv(a, b)))
      [] op = <<"*", "*">> -> IF b >= 0 THEN Returned(PyInt(Power(a, b)))
                       ELSE IF a = 0
                            THEN Raised(<<"0", ".", "0", " ", "c", "a", "n", "n", "o", "t", " ", "b", "e", " ", "r", "a", "i", "s", "e", "d", " ", "t", "o", " ", "a", " ", "n", "e", "g", "a", "t", "i", "v", "e", " ", "p", "o", "w", "e", "r">>)
                            ELSE Returned(PyFloat(1, Power(a, -b)))

\* an operand: optional sign, then an int literal, a name or a call name()
IsSign(t) == t.kind = "op" /\ t.value \in { <<"+">>, <<"-">> }
IsOperand(ts) ==
    \/ Len(ts) = 1 /\ ts[1].kind \in { "int", "name" }
    \/ Len(ts) = 2 /\ IsSign(ts[1]) /\ ts[2].kind \in { "int", "name" }
    \/ Len(ts) = 3 /\ ts[1].kind = "name" /\ ts[2].kind = "(" /\ ts[3].kind = ")"
    \/ Len(ts) = 4 /\ IsSign(ts[1]) /\ ts[2].kind = "name" /\ ts[3].kind = "("
                   /\ ts[4].kind = ")"

OperandSign(ts) == IF IsSign(ts[1]) /\ ts[1].value = <<"-">> THEN -1 ELSE 1
OperandAtom(ts) == IF IsSign(ts[1]) THEN ts[2] ELSE ts[1]

\* the positions of a binary operator that splits the tokens into two operands
Splits(ts) ==
    { k \in 2..(Len(ts) - 1) :
        /\ ts[k].kind = "op"
        /\ IsOperand(SubSeq(ts, 1, k - 1))
        /\ IsOperand(SubSeq(ts, k + 1, Len(ts))) }

\* eval of a tokenised expression
EvalTokens(ts) ==
    IF \E k \in 1..Len(ts) : ts[k].kind = "bad" THEN SyntaxError
    ELSE IF IsOperand(ts) THEN
        IF OperandAtom(ts).kind = "name" THEN NameError(OperandAtom(ts).value)
        ELSE Returned(PyInt(OperandSign(ts) * OperandAtom(ts).value))
    ELSE IF /\ Len(ts) = 5 /\ ts[1].kind = "(" /\ ts[2].kind = "int" /\ ts[3].kind = ")"
            /\ ts[4].kind = "." /\ ts[5].kind = "name" THEN
        IF ts[5].value \in { <<"r", "e", "a", "l">>, <<"n", "u", "m", "e", "r", "a", "t", "o", "r">> } THEN Returned(PyInt(ts[2].value))
        ELSE IF ts[5].value = <<"i", "m", "a", "g">> THEN Returned(PyInt(0))
        ELSE Raised(<<"'", "i", "n", "t", "'", " ", "o", "b", "j", "e", "c", "t", " ", "h", "a", "s", " ", "n", "o", " ", "a", "t", "t", "r", "i", "b", "u", "t", "e", " ", "'">> \o ts[5].value \o <<"'">>)
    ELSE IF Splits(ts) # {} THEN
        LET k == CHOOSE x \in Splits(ts) : TRUE
            left == SubSeq(ts, 1, k - 1)
            right == SubSeq(ts, k + 1, Len(ts))
            op == ts[k].value
        IN  \* the operands are evaluated from the left
            IF OperandAtom(left).kind = "name" THEN NameError(OperandAtom(left).value)
            ELSE IF OperandAtom(right).kind = "name" THEN NameError(OperandAtom(right).value)
            ELSE IF op = <<"*", "*">> /\ OperandSign(left) = -1 THEN
                \* ** binds tighter than the sign on its left: -a ** b is -(a ** b)
                LET r == Arith(OperandAtom(left).value, op,
                               OperandSign(right) * OperandAtom(right).value)
                IN  IF r.ok THEN Returned([r.value EXCEPT !.num = -@]) ELSE r
            ELSE Arith(OperandSign(left) * OperandAtom(left).value, op,
                       OperandSign(right) * OperandAtom(right).value)
    ELSE SyntaxError

\* eval(expression, {"__builtins__": {}})
PyEval(expression) == EvalTokens(Tokens(expression, 1))

\* the digits of num / den after the decimal point, for 0 <= num < den
RECURSIVE Fraction(_, _, _)
Fraction(num, den, room) ==
    IF num = 0 \/ room = 0 THEN << >>
    ELSE << DigitChar[((10 * num) \div den) + 1] >> \o Fraction((10 * num) % den, den, room - 1)

\* str(v) of a Python number: repr of a float with a short decimal expansion
PyStr(v) ==
    IF v.type = "int" THEN IntToStr(v.num)
    ELSE LET neg == (v.num < 0) # (v.den < 0)
             n == IF v.num < 0 THEN -v.num ELSE v.num
             d == IF v.den < 0 THEN -v.den ELSE v.den
             frac == Fraction(n % d, d, 16)
         IN  (IF neg THEN <<"-">> ELSE << >>) \o NatToStr(n \div d) \o <<".">>
             \o (IF frac = << >> THEN <<"0">> ELSE frac)

\* the text calculate returns for the outcome r of eval
CalcText(r) ==
    IF r.ok THEN <<"R", "e", "s", "u", "l", "t", ":", " ">> \o PyStr(r.value)
    ELSE <<"E", "r", "r", "o", "r", " ", "c", "a", "l", "c", "u", "l", "a", "t", "i", "n", "g", ":", " ">> \o r.error

\* calculate(expression)
Calculate(expression) == CalcText(PyEval(expression))

\* the expressions handed to calculate: every operand alone, every operator
\* between two operands, and texts that are no expression
CalcLeft == { <<"2">>, <<"0">>, <<"4">>, <<"8">>, <<"5">>, <<"-", "5">>, <<"x">>, <<"0", "7">>, <<"f", "(", ")">>, <<"-", "x">> }
CalcRight == { <<"2">>, <<"0">>, <<"4">>, <<"8">>, <<"5">>, <<"-", "2">>, <<"o", "s">>, <<"0", "7">>, <<"f", "(", ")">> }
CalcOps == { <<"+">>, <<"-">>, <<"*">>, <<"/">>, <<"/", "/">>, <<"%">>, <<"*", "*">>, <<" ", "+", " ">>, <<"=">>, << >> }
CalcInputs ==
    CalcLeft
    \cup { l \o op \o r : l \in CalcLeft, op \in CalcOps, r \in CalcRight }
    \cup { << >>, <<"i", "m", "p", "o", "r", "t", " ", "o", "s">>, <<"2", "+">>, <<"*", " ", "2">>, <<"2", " ", "2">>, <<" ", " ", "2", " ", "+", " ", "2", " ">>, <<"2", " ", "*", " ", "*", " ", "3">>,
           <<"(", "2", ")", ".", "r", "e", "a", "l">>, <<"(", "2", ")", ".", "i", "m", "a", "g">>, <<"(", "2", ")", ".", "b", "i", "t">>, <<"2", " ", "+", "*", " ", "3">>, <<"1", "2", "5", "*", "3", "7">>, <<"l", "a", "m", "b", "d", "a">> }

(***************************************************************************)
(* LLMAgent                                                                *)
(***************************************************************************)

\* None
None == << "None" >>

\* the names and descriptions of the default tools
N_get_weather == <<"g", "e", "t", "_", "w", "e", "a", "t", "h", "e", "r">>
N_search == <<"s", "e", "a", "r", "c", "h">>
N_calculate == <<"c", "a", "l", "c", "u", "l", "a", "t", "e">>
D_get_weather == <<"G", "e", "t", " ", "t", "h", "e", " ", "c", "u", "r", "r", "e", "n", "t", " ", "w", "e", "a", "t", "h", "e", "r", " ", "f", "o", "r", " ", "a", " ", "l", "o", "c", "a", "t", "i", "o", "n">>
D_search == <<"S", "e", "a", "r", "c", "h", " ", "f", "o", "r", " ", "i", "n", "f", "o", "r", "m", "a", "t", "i", "o", "n", " ", "o", "n", " ", "t", "h", "e", " ", "w", "e", "b">>
D_calculate == <<"E", "v", "a", "l", "u", "a", "t", "e", " ", "a", " ", "m", "a", "t", "h", "e", "m", "a", "t", "i", "c", "a", "l", " ", "e", "x", "p", "r", "e", "s", "s", "i", "o", "n">>

\* Tool(name, description, func); func names the function the tool calls:
\* "get_weather", "search", "calculate" (the three of register_default_tools),
\* or "failing" (a function of the embedding application that raises)
Tool(name, description, func) == [name |-> name, description |-> description, func |-> func]

DefaultTools ==
    << Tool(N_get_weather, D_get_weather, "get_weather"),
       Tool(N_search, D_search, "search"),
       Tool(N_calculate, D_calculate, "calculate") >>

\* the two characters the source has between the temperature and F
Degree == << "U+00AC", "U+221E" >>

\* weather_data
WeatherData ==
    << << <<"N", "e", "w", " ", "Y", "o", "r", "k">>, <<"S", "u", "n", "n", "y", ",", " ", "7", "5">> \o Degree \o <<"F">> >>,
       << <<"L", "o", "n", "d", "o", "n">>, <<"R", "a", "i", "n", "y", ",", " ", "6", "0">> \o Degree \o <<"F">> >>,
       << <<"T", "o", "k", "y", "o">>, <<"C", "l", "o", "u", "d", "y", ",", " ", "7", "0">> \o Degree \o <<"F">> >>,
       << <<"S", "y", "d", "n", "e", "y">>, <<"C", "l", "e", "a", "r", ",", " ", "8", "0">> \o Degree \o <<"F">> >> >>

\* get_weather(location)
GetWeather(location) ==
    IF \E i \in 1..Len(WeatherData) : WeatherData[i][1] = location
    THEN WeatherData[CHOOSE i \in 1..Len(WeatherData) : WeatherData[i][1] = location][2]
    ELSE <<"W", "e", "a", "t", "h", "e", "r", " ", "d", "a", "t", "a", " ", "n", "o", "t", " ", "a", "v", "a", "i", "l", "a", "b", "l", "e">>

\* search(query)
Search(query) == <<"S", "i", "m", "u", "l", "a", "t", "e", "d", " ", "s", "e", "a", "r", "c", "h", " ", "r", "e", "s", "u", "l", "t", "s", " ", "f", "o", "r", ":", " ">> \o query

\* the message of the exception the failing function raises
FailingMessage == <<"s", "e", "r", "v", "i", "c", "e", " ", "u", "n", "a", "v", "a", "i", "l", "a", "b", "l", "e">>

\* the arguments that reach the calculate tool of the agent: those of the
\* process_tool_use calls and the expressions simulate_llm_response extracts
CalcArguments ==
    { <<"2", "+", "2">>, <<"i", "m", "p", "o", "r", "t", " ", "o", "s">>, <<"1", "2", "5", "*", "3", "7">>, <<"8", "/", "0">>, <<"L", "o", "n", "d", "o", "n">>, <<"P", "a", "r", "i", "s">>, <<"c", "a", "t", "s">>, <<"h", "e", "l", "l", "o">>,
      <<"3">> \o Tab \o <<"+">> \o Tab \o <<"4">> }

\* calculate(expression) for each of them, computed once
CalcResults == [e \in CalcArguments |-> Calculate(e)]

\* Tool.__call__: what calling the tool's function with one argument gives,
\* a returned text or a raised exception with its message
CallTool(tool, argument) ==
    CASE tool.func = "get_weather" -> [ok |-> TRUE, text |-> GetWeather(argument)]
      [] tool.func = "search" -> [ok |-> TRUE, text |-> Search(argument)]
      [] tool.func = "calculate" -> [ok |-> TRUE, text |-> CalcResults[argument]]
      [] tool.func = "failing" -> [ok |-> FALSE, text |-> FailingMessage]

\* register_tool that adds an entry on every call, also for a name already there
RegisteredAppend(names, tools, tool) ==
    [ names |-> Append(names, tool.name),
      tools |-> [n \in DOMAIN tools \cup { tool.name } |->
                    IF n = tool.name THEN tool ELSE tools[n]] ]

\* self.tools[tool.name] = tool, on the dict held as its keys in insertion
\* order and the mapping
Registered(names, tools, tool) ==
    [ names |-> IF tool.name \in DOMAIN tools THEN names ELSE Append(names, tool.name),
      tools |-> [n \in DOMAIN tools \cup { tool.name } |->
                    IF n = tool.name THEN tool ELSE tools[n]] ]

\* register_default_tools() on the empty dict
RECURSIVE RegisterAll(_, _, _)
RegisterAll(names, tools, list) ==
    IF list = << >> THEN [names |-> names, tools |-> tools]
    ELSE LET r == Registered(names, tools, Head(list))
         IN  RegisterAll(r.names, r.tools, Tail(list))

\* json.dumps of a str made of ASCII characters
RECURSIVE JsonEscape(_)
JsonEscape(s) ==
    IF s = << >> THEN << >>
    ELSE (CASE s[1] = "\"" -> << "\\", "\"" >>
            [] s[1] = "\\" -> << "\\", "\\" >>
            [] s[1] = "\n" -> << "\\", "n" >>
            [] OTHER -> << s[1] >>) \o JsonEscape(Tail(s))

JsonString(s) == << "\"" >> \o JsonEscape(s) \o << "\"" >>

\* [tool.to_dict() for tool in self.tools.values()]
ToolDicts(names, tools) ==
    [i \in 1..Len(names) |->
        [name |-> tools[names[i]].name, description |-> tools[names[i]].description]]

\* json.dumps(d, indent=2) of one to_dict() inside the list
JsonToolDict(d) ==
    <<" ", " ", "{">> \o << "\n" >>
    \o <<" ", " ", " ", " ">> \o JsonString(<<"n", "a", "m", "e">>) \o <<":", " ">> \o JsonString(d.name) \o <<",">> \o << "\n" >>
    \o <<" ", " ", " ", " ">> \o JsonString(<<"d", "e", "s", "c", "r", "i", "p", "t", "i", "o", "n">>) \o <<":", " ">> \o JsonString(d.description)
    \o << "\n" >> \o <<" ", " ", "}">>

RECURSIVE JsonItems(_)
JsonItems(dicts) ==
    IF Len(dicts) = 1 THEN JsonToolDict(dicts[1])
    ELSE JsonToolDict(dicts[1]) \o <<",">> \o << "\n" >> \o JsonItems(Tail(dicts))

\* get_available_tools_prompt()
GetAvailableToolsPrompt(names, tools) ==
    <<"Y", "o", "u", " ", "h", "a", "v", "e", " ", "a", "c", "c", "e", "s", "s", " ", "t", "o", " ", "t", "h", "e", " ", "f", "o", "l", "l", "o", "w", "i", "n", "g", " ", "t", "o", "o", "l", "s", ":">> \o << "\n" >>
    \o (IF names = << >> THEN <<"[", "]">>
        ELSE <<"[">> \o << "\n" >> \o JsonItems(ToolDicts(names, tools)) \o << "\n" >> \o <<"]">>)

\* the response dict of simulate_llm_response
Response(action, action_input, thoughts, response) ==
    [action |-> action, action_input |-> action_input, thoughts |-> thoughts,
     response |-> response]

\* simulate_llm_response with the calculation check put before the weather check
SimulateCalculationFirst(prompt) ==
    LET lower == Lower(prompt)
    IN  IF \/ Contains(<<"c", "a", "l", "c", "u", "l", "a", "t", "e">>, lower)
           \/ \E op \in { "+", "-", "*", "/" } : Contains(<< op >>, prompt) THEN
            LET match == ArithmeticSearch(prompt)
            IN  IF match.found
                THEN LET expression == Replace(match.group, <<" ">>, << >>)
                     IN  Response(N_calculate, expression,
                            <<"T", "h", "i", "s", " ", "l", "o", "o", "k", "s", " ", "l", "i", "k", "e", " ", "a", " ", "c", "a", "l", "c", "u", "l", "a", "t", "i", "o", "n", " ", "r", "e", "q", "u", "e", "s", "t", ".", " ", "I", "'", "l", "l", " ", "c", "o", "m", "p", "u", "t", "e", " ">>
                                \o expression \o <<".">>,
                            None)
                ELSE Response(N_calculate, <<"2", "+", "2">>,
                        <<"I", "'", "m", " ", "n", "o", "t", " ", "s", "u", "r", "e", " ", "w", "h", "a", "t", " ", "t", "o", " ", "c", "a", "l", "c", "u", "l", "a", "t", "e", ",", " ", "b", "u", "t", " ", "I", "'", "l", "l", " ", "d", "o", " ", "a", " ", "s", "i", "m", "p", "l", "e", " ", "c", "a", "l", "c", "u", "l", "a", "t", "i", "o", "n", ".">>,
                        None)
        ELSE IF Contains(<<"w", "e", "a", "t", "h", "e", "r">>, lower) THEN
            LET location ==
                    IF Contains(<<"n", "e", "w", " ", "y", "o", "r", "k">>, lower) THEN <<"N", "e", "w", " ", "Y", "o", "r", "k">>
                    ELSE IF Contains(<<"l", "o", "n", "d", "o", "n">>, lower) THEN <<"L", "o", "n", "d", "o", "n">>
                    ELSE IF Contains(<<"t", "o", "k", "y", "o">>, lower) THEN <<"T", "o", "k", "y", "o">>
                    ELSE IF Contains(<<"s", "y", "d", "n", "e", "y">>, lower) THEN <<"S", "y", "d", "n", "e", "y">>
                    ELSE <<"N", "e", "w", " ", "Y", "o", "r", "k">>
            IN  Response(N_get_weather, location,
                    <<"T", "h", "e", " ", "u", "s", "e", "r", " ", "i", "s", " ", "a", "s", "k", "i", "n", "g", " ", "a", "b", "o", "u", "t", " ", "w", "e", "a", "t", "h", "e", "r", ".", " ", "I", " ", "s", "h", "o", "u", "l", "d", " ", "c", "h", "e", "c", "k", " ", "t", "h", "e", " ", "w", "e", "a", "t", "h", "e", "r", " ", "i", "n", " ">>
                        \o location \o <<".">>,
                    None)
        ELSE IF \/ Contains(<<"s", "e", "a", "r", "c", "h">>, lower)
                \/ Contains(<<"f", "i", "n", "d">>, lower)
                \/ Contains(<<"l", "o", "o", "k", " ", "u", "p">>, lower) THEN
            LET query == Strip(Replace(Replace(Replace(prompt, <<"s", "e", "a", "r", "c", "h">>, << >>),
                                               <<"f", "i", "n", "d">>, << >>),
                                       <<"l", "o", "o", "k", " ", "u", "p">>, << >>))
            IN  Response(N_search, query,
                    <<"T", "h", "e", " ", "u", "s", "e", "r", " ", "w", "a", "n", "t", "s", " ", "i", "n", "f", "o", "r", "m", "a", "t", "i", "o", "n", ".", " ", "I", "'", "l", "l", " ", "s", "e", "a", "r", "c", "h", " ", "f", "o", "r", " ", "'">> \o query \o <<"'", ".">>,
                    None)
        ELSE Response(None, None,
                <<"I", " ", "d", "o", "n", "'", "t", " ", "h", "a", "v", "e", " ", "a", " ", "s", "p", "e", "c", "i", "f", "i", "c", " ", "t", "o", "o", "l", " ", "f", "o", "r", " ", "t", "h", "i", "s", " ", "r", "e", "q", "u", "e", "s", "t", ".", " ", "I", "'", "l", "l", " ", "j", "u", "s", "t", " ", "r", "e", "s", "p", "o", "n", "d", " ", "c", "o", "n", "v", "e", "r", "s", "a", "t", "i", "o", "n", "a", "l", "l", "y", ".">>,
                <<"I", "'", "m", " ", "n", "o", "t", " ", "s", "u", "r", "e", " ", "h", "o", "w", " ", "t", "o", " ", "h", "e", "l", "p", " ", "w", "i", "t", "h", " ", "t", "h", "a", "t", " ", "s", "p", "e", "c", "i", "f", "i", "c", " ", "r", "e", "q", "u", "e", "s", "t", ".", " ", "C", "o", "u", "l", "d", " ", "y", "o", "u", " ", "t", "r", "y", " ", "a", "s", "k", "i", "n", "g", " ", "s", "o", "m", "e", "t", "h", "i", "n", "g", " ", "a", "b", "o", "u", "t", " ", "t", "h", "e", " ", "w", "e", "a", "t", "h", "e", "r", ",", " ", "a", " ", "c", "a", "l", "c", "u", "l", "a", "t", "i", "o", "n", ",", " ", "o", "r", " ", "a", " ", "s", "e", "a", "r", "c", "h", " ", "q", "u", "e", "r", "y", "?">>)

\* simulate_llm_response(prompt)
SimulateLLMResponse(prompt) ==
    LET lower == Lower(prompt)
    IN  IF Contains(<<"w", "e", "a", "t", "h", "e", "r">>, lower) THEN
            LET location ==
                    IF Contains(<<"n", "e", "w", " ", "y", "o", "r", "k">>, lower) THEN <<"N", "e", "w", " ", "Y", "o", "r", "k">>
                    ELSE IF Contains(<<"l", "o", "n", "d", "o", "n">>, lower) THEN <<"L", "o", "n", "d", "o", "n">>
                    ELSE IF Contains(<<"t", "o", "k", "y", "o">>, lower) THEN <<"T", "o", "k", "y", "o">>
                    ELSE IF Contains(<<"s", "y", "d", "n", "e", "y">>, lower) THEN <<"S", "y", "d", "n", "e", "y">>
                    ELSE <<"N", "e", "w", " ", "Y", "o", "r", "k">>
            IN  Response(N_get_weather, location,
                    <<"T", "h", "e", " ", "u", "s", "e", "r", " ", "i", "s", " ", "a", "s", "k", "i", "n", "g", " ", "a", "b", "o", "u", "t", " ", "w", "e", "a", "t", "h", "e", "r", ".", " ", "I", " ", "s", "h", "o", "u", "l", "d", " ", "c", "h", "e", "c", "k", " ", "t", "h", "e", " ", "w", "e", "a", "t", "h", "e", "r", " ", "i", "n", " ">>
                        \o location \o <<".">>,
                    None)
        ELSE IF \/ Contains(<<"c", "a", "l", "c", "u", "l", "a", "t", "e">>, lower)
                \/ \E op \in { "+", "-", "*", "/" } : Contains(<< op >>, prompt) THEN
            LET match == ArithmeticSearch(prompt)
            IN  IF match.found
                THEN LET expression == Replace(match.group, <<" ">>, << >>)
                     IN  Response(N_calculate, expression,
                            <<"T", "h", "i", "s", " ", "l", "o", "o", "k", "s", " ", "l", "i", "k", "e", " ", "a", " ", "c", "a", "l", "c", "u", "l", "a", "t", "i", "o", "n", " ", "r", "e", "q", "u", "e", "s", "t", ".", " ", "I", "'", "l", "l", " ", "c", "o", "m", "p", "u", "t", "e", " ">>
                                \o expression \o <<".">>,
                            None)
                ELSE Response(N_calculate, <<"2", "+", "2">>,
                        <<"I", "'", "m", " ", "n", "o", "t", " ", "s", "u", "r", "e", " ", "w", "h", "a", "t", " ", "t", "o", " ", "c", "a", "l", "c", "u", "l", "a", "t", "e", ",", " ", "b", "u", "t", " ", "I", "'", "l", "l", " ", "d", "o", " ", "a", " ", "s", "i", "m", "p", "l", "e", " ", "c", "a", "l", "c", "u", "l", "a", "t", "i", "o", "n", ".">>,
                        None)
        ELSE IF \/ Contains(<<"s", "e", "a", "r", "c", "h">>, lower)
                \/ Contains(<<"f", "i", "n", "d">>, lower)
                \/ Contains(<<"l", "o", "o", "k", " ", "u", "p">>, lower) THEN
            LET query == Strip(Replace(Replace(Replace(prompt, <<"s", "e", "a", "r", "c", "h">>, << >>),
                                               <<"f", "i", "n", "d">>, << >>),
                                       <<"l", "o", "o", "k", " ", "u", "p">>, << >>))
            IN  Response(N_search, query,
                    <<"T", "h", "e", " ", "u", "s", "e", "r", " ", "w", "a", "n", "t", "s", " ", "i", "n", "f", "o", "r", "m", "a", "t", "i", "o", "n", ".", " ", "I", "'", "l", "l", " ", "s", "e", "a", "r", "c", "h", " ", "f", "o", "r", " ", "'">> \o query \o <<"'", ".">>,
                    None)
        ELSE Response(None, None,
                <<"I", " ", "d", "o", "n", "'", "t", " ", "h", "a", "v", "e", " ", "a", " ", "s", "p", "e", "c", "i", "f", "i", "c", " ", "t", "o", "o", "l", " ", "f", "o", "r", " ", "t", "h", "i", "s", " ", "r", "e", "q", "u", "e", "s", "t", ".", " ", "I", "'", "l", "l", " ", "j", "u", "s", "t", " ", "r", "e", "s", "p", "o", "n", "d", " ", "c", "o", "n", "v", "e", "r", "s", "a", "t", "i", "o", "n", "a", "l", "l", "y", ".">>,
                <<"I", "'", "m", " ", "n", "o", "t", " ", "s", "u", "r", "e", " ", "h", "o", "w", " ", "t", "o", " ", "h", "e", "l", "p", " ", "w", "i", "t", "h", " ", "t", "h", "a", "t", " ", "s", "p", "e", "c", "i", "f", "i", "c", " ", "r", "e", "q", "u", "e", "s", "t", ".", " ", "C", "o", "u", "l", "d", " ", "y", "o", "u", " ", "t", "r", "y", " ", "a", "s", "k", "i", "n", "g", " ", "s", "o", "m", "e", "t", "h", "i", "n", "g", " ", "a", "b", "o", "u", "t", " ", "t", "h", "e", " ", "w", "e", "a", "t", "h", "e", "r", ",", " ", "a", " ", "c", "a", "l", "c", "u", "l", "a", "t", "i", "o", "n", ",", " ", "o", "r", " ", "a", " ", "s", "e", "a", "r", "c", "h", " ", "q", "u", "e", "r", "y", "?">>)

\* the tools the driver registers: new names, and the default names again
\* with another description or function
DriverTools ==
    { Tool(<<"t", "r", "a", "n", "s", "l", "a", "t", "e">>, <<"T", "r", "a", "n", "s", "l", "a", "t", "e", " ", "a", " ", "t", "e", "x", "t">>, "search"),
      Tool(<<"t", "r", "a", "n", "s", "l", "a", "t", "e">>, <<"T", "r", "a", "n", "s", "l", "a", "t", "e", " ">> \o << "\"" >> \o <<"b", "e", "t", "t", "e", "r">> \o << "\"" >>, "failing"),
      Tool(N_search, <<"S", "e", "a", "r", "c", "h", " ", "v", "2">>, "failing"),
      Tool(N_get_weather, <<"W", "e", "a", "t", "h", "e", "r", " ", "v", "2">>, "get_weather"),
      Tool(N_calculate, D_calculate, "failing") }

\* the user inputs the driver passes to process(): the queries of the example
\* run and inputs for the other branches (one with tabs around the operator)
UserInputs ==
    { <<"W", "h", "a", "t", "'", "s", " ", "t", "h", "e", " ", "w", "e", "a", "t", "h", "e", "r", " ", "l", "i", "k", "e", " ", "i", "n", " ", "L", "o", "n", "d", "o", "n", "?">>,
      <<"C", "a", "l", "c", "u", "l", "a", "t", "e", " ", "1", "2", "5", " ", "*", " ", "3", "7">>,
      <<"S", "e", "a", "r", "c", "h", " ", "f", "o", "r", " ", "i", "n", "f", "o", "r", "m", "a", "t", "i", "o", "n", " ", "a", "b", "o", "u", "t", " ", "A", "I", " ", "a", "g", "e", "n", "t", "s">>,
      <<"T", "e", "l", "l", " ", "m", "e", " ", "a", " ", "j", "o", "k", "e">>,
      <<"W", "h", "a", "t", "'", "s", " ", "t", "h", "e", " ", "w", "e", "a", "t", "h", "e", "r", " ", "i", "n", " ", "T", "o", "k", "y", "o", "?">>,
      <<"s", "e", "a", "r", "c", "h", " ", "c", "a", "t", "s">>,
      <<"w", "h", "a", "t", " ", "i", "s", " ", "8", "/", "0">>,
      <<"p", "l", "e", "a", "s", "e", " ", "f", "i", "n", "d", " ", "2", " ", "a", "n", "d", " ", "2">>,
      <<"a", "d", "d", " ", "3">> \o Tab \o <<"+">> \o Tab \o <<"4">> }

\* the (action, action_input) pairs the driver passes to process_tool_use()
ToolCalls ==
    { << N_get_weather, <<"L", "o", "n", "d", "o", "n">> >>,
      << N_get_weather, <<"P", "a", "r", "i", "s">> >>,
      << N_search, <<"c", "a", "t", "s">> >>,
      << N_calculate, <<"2", "+", "2">> >>,
      << N_calculate, <<"i", "m", "p", "o", "r", "t", " ", "o", "s">> >>,
      << <<"t", "r", "a", "n", "s", "l", "a", "t", "e">>, <<"h", "e", "l", "l", "o">> >>,
      << <<"S", "e", "a", "r", "c", "h">>, <<"c", "a", "t", "s">> >>,
      << <<"w", "e", "a", "t", "h", "e", "r">>, <<"L", "o", "n", "d", "o", "n">> >>,
      << << >>, <<"L", "o", "n", "d", "o", "n">> >> }

\* simulate_llm_response(user_input) for every user input, computed once
LLMResponses == [u \in UserInputs |-> SimulateLLMResponse(u)]

\* the outcome of a call: the text returned, or raised = TRUE when the call
\* ends with an exception; calls lists the tool functions invoked, in order
Outcome(raised, text, calls) == [raised |-> raised, text |-> text, calls |-> calls]

\* the try/except of process_tool_use around the call r of the tool
ToolReturn(action, r, calls) ==
    IF r.ok
    THEN Outcome(FALSE, <<"T", "o", "o", "l", " ", "'">> \o action \o <<"'", " ", "r", "e", "t", "u", "r", "n", "e", "d", ":", " ">> \o r.text, calls)
    ELSE Outcome(FALSE, <<"E", "r", "r", "o", "r", " ", "u", "s", "i", "n", "g", " ", "t", "o", "o", "l", " ", "'">> \o action \o <<"'", ":", " ">> \o r.text, calls)

\* the call r of the tool with no try/except around it
ToolReturnNoCatch(action, r, calls) ==
    IF r.ok
    THEN Outcome(FALSE, <<"T", "o", "o", "l", " ", "'">> \o action \o <<"'", " ", "r", "e", "t", "u", "r", "n", "e", "d", ":", " ">> \o r.text, calls)
    ELSE Outcome(TRUE, << >>, calls)

\* process_tool_use without the try/except around the tool call
ProcessToolUseNoCatch(tools, action, action_input) ==
    IF action \in DOMAIN tools THEN
        ToolReturnNoCatch(action, CallTool(tools[action], action_input),
                          << [func |-> tools[action].func, argument |-> action_input] >>)
    ELSE Outcome(FALSE, <<"T", "o", "o", "l", " ", "'">> \o action \o <<"'", " ", "n", "o", "t", " ", "f", "o", "u", "n", "d", ".">>, << >>)

\* process_tool_use that falls back to the search tool for an unknown name
ProcessToolUseFallback(tools, action, action_input) ==
    ToolReturn(action,
               CallTool(IF action \in DOMAIN tools THEN tools[action] ELSE tools[N_search],
                        action_input),
               << [func |-> (IF action \in DOMAIN tools THEN tools[action]
                             ELSE tools[N_search]).func,
                   argument |-> action_input] >>)

\* process_tool_use(action, action_input)
ProcessToolUse(tools, action, action_input) ==
    IF action \in DOMAIN tools THEN
        ToolReturn(action, CallTool(tools[action], action_input),
                   << [func |-> tools[action].func, argument |-> action_input] >>)
    ELSE Outcome(FALSE, <<"T", "o", "o", "l", " ", "'">> \o action \o <<"'", " ", "n", "o", "t", " ", "f", "o", "u", "n", "d", ".">>, << >>)

\* add_to_memory that keeps the last three records only
AddToMemoryLastThree(memory, role, content) ==
    IF Len(memory) >= 3
    THEN Append(SubSeq(memory, Len(memory) - 1, Len(memory)),
                [role |-> role, content |-> content])
    ELSE Append(memory, [role |-> role, content |-> content])

\* add_to_memory(role, content)
AddToMemory(memory, role, content) == Append(memory, [role |-> role, content |-> content])

\* process(user_input) after the tool was used: the final response is
\* returned and remembered, unless the tool use raised
ToolReply(heard, action, used) ==
    IF used.raised
    THEN [memory |-> heard, outcome |-> used]
    ELSE [memory |-> AddToMemory(heard, "assistant",
                                 <<"I", " ", "u", "s", "e", "d", " ">> \o action
                                 \o <<" ", "t", "o", " ", "h", "e", "l", "p", " ", "a", "n", "s", "w", "e", "r", " ", "y", "o", "u", "r", " ", "q", "u", "e", "s", "t", "i", "o", "n", ".", " ">> \o used.text),
          outcome |-> Outcome(FALSE,
                              <<"I", " ", "u", "s", "e", "d", " ">> \o action
                              \o <<" ", "t", "o", " ", "h", "e", "l", "p", " ", "a", "n", "s", "w", "e", "r", " ", "y", "o", "u", "r", " ", "q", "u", "e", "s", "t", "i", "o", "n", ".", " ">> \o used.text,
                              used.calls)]

\* process(user_input) with the response llm_response of the model
Respond(tools, heard, llm_response) ==
    \* (tools_prompt, memory_prompt and prompt are built first and not used)
    IF llm_response.action # None /\ llm_response.action # << >>
       /\ llm_response.action_input # None THEN
        ToolReply(heard, llm_response.action,
                  ProcessToolUse(tools, llm_response.action, llm_response.action_input))
    ELSE IF llm_response.response # None /\ llm_response.response # << >> THEN
        [memory |-> AddToMemory(heard, "assistant", llm_response.response),
         outcome |-> Outcome(FALSE, llm_response.response, << >>)]
    ELSE
        [memory |-> AddToMemory(heard, "assistant", <<"I", "'", "m", " ", "n", "o", "t", " ", "s", "u", "r", "e", " ", "h", "o", "w", " ", "t", "o", " ", "r", "e", "s", "p", "o", "n", "d", " ", "t", "o", " ", "t", "h", "a", "t", ".">>),
         outcome |-> Outcome(FALSE, <<"I", "'", "m", " ", "n", "o", "t", " ", "s", "u", "r", "e", " ", "h", "o", "w", " ", "t", "o", " ", "r", "e", "s", "p", "o", "n", "d", " ", "t", "o", " ", "t", "h", "a", "t", ".">>, << >>)]

\* process(user_input) that hands the first remembered input to
\* simulate_llm_response
ProcessCallFromMemory(tools, memory, user_input) ==
    Respond(tools, AddToMemory(memory, "user", user_input),
            LLMResponses[AddToMemory(memory, "user", user_input)[1].content])

\* process(user_input): the memory it leaves and its outcome
ProcessCall(tools, memory, user_input) ==
    Respond(tools, AddToMemory(memory, "user", user_input), LLMResponses[user_input])

\* bound on the register_tool calls of the driver after construction
MaxRegs == 2
\* bound on the process calls of the driver, each adding two memory records
MaxProcess == 2

\* register_tool(tool)
RegisterTool(tool) ==
    LET r == Registered(l_names, l_tools, tool)
    IN  /\ Len(l_history) < Len(DefaultTools) + MaxRegs
        /\ l_names' = r.names
        /\ l_tools' = r.tools
        /\ l_history' = Append(l_history, tool)
        /\ l_op' = [op |-> "register_tool", tool |-> tool]
        /\ l_result' = None
        /\ l_invoked' = << >>
        /\ l_raised' = FALSE
        /\ UNCHANGED l_memory

\* get_available_tools_prompt()
ToolsPrompt ==
    /\ l_op' = [op |-> "get_available_tools_prompt"]
    /\ l_result' = GetAvailableToolsPrompt(l_names, l_tools)
    /\ l_invoked' = << >>
    /\ l_raised' = FALSE
    /\ UNCHANGED <<l_names, l_tools, l_history, l_memory>>

\* what a call leaves for the observer: its result, the tool functions it
\* invoked, whether it raised
Observed(used) ==
    /\ l_result' = IF used.raised THEN None ELSE used.text
    /\ l_invoked' = used.calls
    /\ l_raised' = used.raised

\* process_tool_use(action, action_input)
ToolUse(action, action_input) ==
    /\ l_op' = [op |-> "process_tool_use", action |-> action,
                action_input |-> action_input]
    /\ Observed(ProcessToolUse(l_tools, action, action_input))
    /\ UNCHANGED <<l_names, l_tools, l_history, l_memory>>

\* the memory and the outcome process() leaves
Processed(done) ==
    /\ l_memory' = done.memory
    /\ Observed(done.outcome)

\* process(user_input)
Process(user_input) ==
    /\ Len(l_memory) < 2 * MaxProcess
    /\ l_op' = [op |-> "process", user_input |-> user_input]
    /\ Processed(ProcessCall(l_tools, l_memory, user_input))
    /\ UNCHANGED <<l_names, l_tools, l_history>>

\* LLMAgent(): empty memory, the default tools registered
LInit ==
    /\ l_names = RegisterAll(<< >>, << >>, DefaultTools).names
    /\ l_tools = RegisterAll(<< >>, << >>, DefaultTools).tools
    /\ l_history = DefaultTools
    /\ l_memory = << >>
    /\ l_op = [op |-> "init"]
    /\ l_result = None
    /\ l_invoked = << >>
    /\ l_raised = FALSE

(***************************************************************************)
(* The calculate tool on its own: one call on one expression               *)
(***************************************************************************)

\* calculate(expression)
CalcCall ==
    /\ c_pc = "call"
    /\ c_result' = Calculate(c_expression)
    /\ c_pc' = "returned"
    /\ UNCHANGED c_expression

CInit ==
    /\ c_expression \in CalcInputs
    /\ c_pc = "call"
    /\ c_result = None

(***************************************************************************)
(* simulate_llm_response on its own: one call on one prompt                *)
(***************************************************************************)

\* the pieces the prompts are put together from: the trigger words of each
\* check in several letter cases, operators with and without numbers, a
\* location, and texts with no trigger
PromptPieces ==
    { << >>, <<"h", "e", "l", "l", "o">>, <<"w", "e", "a", "t", "h", "e", "r">>, <<"W", "e", "a", "t", "h", "e", "r", " ", "i", "n", " ", "T", "o", "k", "y", "o">>, <<"c", "a", "l", "c", "u", "l", "a", "t", "e">>, <<"C", "A", "L", "C", "U", "L", "A", "T", "E">>,
      <<"3", " ", "+", " ", "4">>, <<"1", "2", "*", "3", " ", "a", "n", "d", " ", "4", "/", "2">>, <<"3">> \o Tab \o <<"+">> \o Tab \o <<"4">>, <<"w", "e", "l", "l", "-", "k", "n", "o", "w", "n">>,
      <<"s", "e", "a", "r", "c", "h">>, <<"S", "e", "a", "r", "c", "h">>, <<"f", "i", "n", "d">>, <<"F", "i", "n", "d">>, <<"l", "o", "o", "k", " ", "u", "p">>, <<"L", "o", "o", "k", " ", "U", "p">>, <<"c", "a", "t", "s">> }

\* the prompts passed to simulate_llm_response: every two pieces joined by a
\* space, the inputs of process(), and texts in which removing one trigger
\* word puts another together
Prompts ==
    { a \o <<" ">> \o b : a \in PromptPieces, b \in PromptPieces }
    \cup UserInputs
    \cup { << >>, <<"s", "e", "s", "e", "a", "r", "c", "h", "a", "r", "c", "h", " ", "c", "a", "t", "s">>, <<"l", "o", "f", "i", "n", "d", "o", "k", " ", "u", "p", " ", "c", "a", "t", "s">>, <<" ", " ", "f", "i", "n", "d", " ", " ", "c", "a", "t", "s", " ", " ">>,
           <<"1", "+">>, <<"7", " ", "-", "2">>, <<"r", "e", "s", "e", "a", "r", "c", "h">>, <<"F", "i", "n", "d", " ", "t", "h", "e", " ", "w", "e", "a", "t", "h", "e", "r", " ", "2", "+", "2">> }

\* the value of the variable before the call returns: no key is set
NoResponse == Response(None, None, << >>, None)

\* simulate_llm_response(prompt)
SimulateCall ==
    /\ p_pc = "call"
    /\ p_response' = SimulateLLMResponse(p_prompt)
    /\ p_pc' = "returned"
    /\ UNCHANGED p_prompt

PInit ==
    /\ p_prompt \in Prompts
    /\ p_pc = "call"
    /\ p_response = NoResponse

(***************************************************************************)
(* update_model on its own: one call on one model and one percept          *)
(***************************************************************************)

\* the percepts passed to update_model: those of perceive(), and the literals
\* in other letter cases
UpdatePercepts ==
    Percepts
    \cup { <<"C", "O", "L", "D">>, <<"H", "o", "t">>, <<"D", "a", "r", "k">>, <<"B", "R", "I", "G", "H", "T">>, <<"N", "o", "i", "s", "e">>, <<"S", "M", "O", "K", "E">>, <<"M", "o", "r", "n", "i", "n", "g">>,
           <<"N", "I", "G", "H", "T">>, <<"H", "u", "n", "g", "r", "y">>, <<"C", "o", "l", "d", " ", "a", "n", "d", " ", "D", "a", "r", "k">>, <<"I", "t", " ", "i", "s", " ", "H", "O", "T">>, <<"A", " ", "N", "o", "i", "s", "e", " ", "a", "t", " ", "N", "i", "g", "h", "t">> }

\* the models update_model is called on: the categories the code assigns,
\* last_meal after none or one "hungry", and the energy levels the actions
\* and the decay leave
UpdateModels ==
    [ room_temperature : { "normal", "cold", "hot" },
      room_lighting : { "normal", "dark", "bright" },
      noise_level : { "quiet", "noisy" },
      danger_present : BOOLEAN,
      time_of_day : { "day", "morning", "night" },
      last_meal : { 0, 4 },
      energy_level : { 100, 50, 2, 0, -5, -20 } ]

\* update_model(percept)
UpdateCall ==
    /\ u_pc = "call"
    /\ u_after' = UpdateModel(u_before, u_percept)
    /\ u_pc' = "returned"
    /\ UNCHANGED <<u_before, u_percept>>

UInit ==
    /\ u_before \in UpdateModels
    /\ u_percept \in UpdatePercepts
    /\ u_pc = "call"
    /\ u_after = InitModel

(***************************************************************************)
(* Specifications                                                          *)
(***************************************************************************)

\* the calculate tool at rest, in the specifications of the agents
CIdle ==
    /\ c_expression = << >>
    /\ c_pc = "returned"
    /\ c_result = None

\* simulate_llm_response at rest
PIdle ==
    /\ p_prompt = << >>
    /\ p_pc = "returned"
    /\ p_response = NoResponse

\* update_model at rest
UIdle ==
    /\ u_before = InitModel
    /\ u_percept = << >>
    /\ u_pc = "returned"
    /\ u_after = InitModel

Init == MInit /\ SInit /\ LInit /\ CIdle /\ PIdle /\ UIdle

\* one call of calculate, on any of the expressions
CalcInit == MInit /\ SInit /\ LInit /\ CInit /\ PIdle /\ UIdle

\* one call of simulate_llm_response, on any of the prompts
SimulateInit == MInit /\ SInit /\ LInit /\ CIdle /\ PInit /\ UIdle

\* one call of update_model, on any of the models and percepts
UpdateInit == MInit /\ SInit /\ LInit /\ CIdle /\ PIdle /\ UInit

MNext ==
    \/ \E percept \in Percepts : Perceive(percept) /\ UNCHANGED <<s_vars, l_vars, c_vars, p_vars, u_vars>>
    \/ Act /\ UNCHANGED <<s_vars, l_vars, c_vars, p_vars, u_vars>>

SNext ==
    \/ \E percept \in SimplePercepts :
            SimplePerceive(percept) /\ UNCHANGED <<m_vars, l_vars, c_vars, p_vars, u_vars>>
    \/ SimpleAct /\ UNCHANGED <<m_vars, l_vars, c_vars, p_vars, u_vars>>

LNext ==
    \/ \E tool \in DriverTools : RegisterTool(tool) /\ UNCHANGED <<m_vars, s_vars, c_vars, p_vars, u_vars>>
    \/ ToolsPrompt /\ UNCHANGED <<m_vars, s_vars, c_vars, p_vars, u_vars>>
    \/ \E call \in ToolCalls : ToolUse(call[1], call[2]) /\ UNCHANGED <<m_vars, s_vars, c_vars, p_vars, u_vars>>
    \/ \E user_input \in UserInputs :
            Process(user_input) /\ UNCHANGED <<m_vars, s_vars, c_vars, p_vars, u_vars>>

CNext == CalcCall /\ UNCHANGED <<m_vars, s_vars, l_vars, p_vars, u_vars>>

PNext == SimulateCall /\ UNCHANGED <<m_vars, s_vars, l_vars, c_vars, u_vars>>

UNext == UpdateCall /\ UNCHANGED <<m_vars, s_vars, l_vars, c_vars, p_vars>>

SpecModel == Init /\ [][MNext]_vars
SpecSimple == Init /\ [][SNext]_vars
SpecLLM == Init /\ [][LNext]_vars
SpecCalc == CalcInit /\ [][CNext]_vars
SpecSimulate == SimulateInit /\ [][PNext]_vars
SpecUpdate == UpdateInit /\ [][UNext]_vars

(***************************************************************************)
(* Claims about ModelBasedAgent (SpecModel)                                *)
(***************************************************************************)

\* C1: energy_level is within [0,100] in every state reachable by perceive()
\* and act() calls.  (Violated: act() stores the descriptor's number as the
\* new energy_level, so turn_on_heater leaves it at -5.)
C1_EnergyInRange == m_model.energy_level \in 0..100

\* C2: perceive(p).act() for "cold", "dark", "noise", "hungry", "danger" on a
\* fresh agent returns turn_on_heater, turn_on_light, investigate_noise,
\* eat_food, escape.  (Violated: the run returns turn_on_heater, rest,
\* turn_on_light, rest, escape.)
C2_ScenarioActions ==
    m_script = 2 * Len(Scenario) =>
        m_returned = << "turn_on_heater", "turn_on_light", "investigate_noise",
                        "eat_food", "escape" >>

\* what the scenario run returns on the code
C2_Observed ==
    /\ m_script = 2 * Len(Scenario)
    /\ m_returned = << "turn_on_heater", "rest", "turn_on_light", "rest", "escape" >>

\* C3: an act() that directly follows perceive(percept) with a danger-class
\* token ("danger" or "smoke") in percept returns escape, whatever the other
\* model fields are.
C3_DangerEscapes ==
    (m_lastCall.op = "act" /\ m_lastCall.danger) => m_action = "escape"

\* C3 witness: escape was returned right after a danger-class percept although
\* the agent was out of energy, hungry, cold, in the dark and hearing noise
C3_Witness ==
    /\ m_lastCall.op = "act" /\ m_lastCall.danger
    /\ m_action = "escape"
    /\ m_model.last_meal > 6
    /\ m_model.room_temperature = "cold"
    /\ m_model.room_lighting = "dark"
    /\ m_model.noise_level = "noisy"

\* C4: whenever danger_present is false and energy_level is below 20, the
\* think() of an act() call returns rest, for every value of the other fields.
C4_LowEnergyRests ==
    [][ ( /\ m_lastCall'.op = "act"
          /\ m_actions_taken' = m_actions_taken + 1
          /\ ~m_model.danger_present
          /\ m_model.energy_level < 20 )
        => m_action' = "rest" ]_vars

\* C4 witness: rest was returned with last_meal > 6 and a cold, dark, noisy room
C4_Witness ==
    /\ m_lastCall.op = "act"
    /\ m_action = "rest"
    /\ m_model.last_meal > 6
    /\ m_model.room_temperature = "cold"
    /\ m_model.room_lighting = "dark"
    /\ m_model.noise_level = "noisy"

\* the energy_level changes the effect descriptors are said to list
C6_Delta ==
    [ turn_on_ac |-> -5, turn_on_heater |-> -5, turn_on_light |-> -1,
      close_blinds |-> -1, investigate_noise |-> -10, eat_food |-> 30,
      rest |-> 50, escape |-> -20 ]

C6_Clamp(n) == IF n < 0 THEN 0 ELSE IF n > 100 THEN 100 ELSE n

\* C6: after an act() that executes an action with an energy_level change,
\* energy_level equals its value before act() plus the change, clamped to
\* [0,100].  (Violated: act() assigns the number itself.)
C6_EnergyDelta ==
    [][ ( /\ m_lastCall'.op = "act"
          /\ m_actions_taken' = m_actions_taken + 1
          /\ m_action' \in DOMAIN C6_Delta )
        => m_model'.energy_level = C6_Clamp(m_model.energy_level + C6_Delta[m_action']) ]_vars

\* the fields each effect descriptor lists
C14_Listed ==
    [ turn_on_ac |-> { "room_temperature", "energy_level" },
      turn_on_heater |-> { "room_temperature", "energy_level" },
      turn_on_light |-> { "room_lighting", "energy_level" },
      close_blinds |-> { "room_lighting", "energy_level" },
      investigate_noise |-> { "noise_level", "energy_level" },
      eat_food |-> { "last_meal", "energy_level" },
      rest |-> { "energy_level" },
      escape |-> { "danger_present", "energy_level" } ]

\* C14: every act() raises actions_taken by exactly 1; when it selects
\* do_nothing it leaves every model field unchanged, and when it selects an
\* action with a descriptor it leaves the fields the descriptor does not list
\* unchanged.
C14_ActFrame ==
    [][ (m_lastCall'.op = "act" /\ m_vars' # m_vars) =>
        /\ m_actions_taken' = m_actions_taken + 1
        /\ m_action' = "do_nothing" => m_model' = m_model
        /\ m_action' \in DOMAIN C14_Listed =>
                \A field \in DOMAIN m_model \ C14_Listed[m_action'] :
                    m_model'[field] = m_model[field]
        /\ m_action' = "do_nothing" \/ m_action' \in DOMAIN C14_Listed ]_vars

\* C14 witness: act() selected do_nothing on a model that perceive() had
\* changed (time_of_day night, energy below 100) and left it so
C14_Witness ==
    /\ m_lastCall.op = "act"
    /\ m_action = "do_nothing"
    /\ m_actions_taken > 0
    /\ m_model.time_of_day = "night"
    /\ m_model.energy_level \in 20..99

\* the resource guards and the comfort guards of think() on a model
C16_ResourceGuard(m) == m.energy_level < 20 \/ m.last_meal > 6
C16_ComfortGuard(m) ==
    \/ m.room_temperature \in { "cold", "hot" }
    \/ m.room_lighting = "dark" /\ m.time_of_day # "night"
    \/ m.room_lighting = "bright" /\ m.time_of_day = "night"

\* C16: act() returns investigate_noise only from a model with no danger and
\* no resource or comfort guard true (and a noisy noise level), and
\* do_nothing only from a model in which every guard is false.
C16_PriorityTiers ==
    [][ (m_lastCall'.op = "act" /\ m_actions_taken' # m_actions_taken) =>
        /\ m_action' = "investigate_noise" =>
            /\ ~m_model.danger_present
            /\ ~C16_ResourceGuard(m_model)
            /\ ~C16_ComfortGuard(m_model)
            /\ m_model.noise_level = "noisy"
        /\ m_action' = "do_nothing" =>
            /\ ~m_model.danger_present
            /\ ~C16_ResourceGuard(m_model)
            /\ ~C16_ComfortGuard(m_model)
            /\ m_model.noise_level # "noisy" ]_vars

\* C16 witness: act() returned investigate_noise in a dark room at night,
\* where darkness is no comfort guard
C16_Witness ==
    /\ m_lastCall.op = "act"
    /\ m_action = "investigate_noise"
    /\ m_model.room_lighting = "dark"
    /\ m_model.time_of_day = "night"
    /\ m_model.noise_level = "quiet"

\* C19: danger_present is false before the first perceive() and after every
\* act(), so every perceive(percept).act() cycle starts and ends with it
\* false; a danger perceived in a cycle is answered by escape in that cycle.
C19_DangerCleared ==
    /\ m_lastCall.op # "perceive" => ~m_model.danger_present
    /\ (m_lastCall.op = "act" /\ m_lastCall.danger) => m_action = "escape"

\* C19 witness: the second cycle perceived a danger and ended with escape
\* returned and danger_present false
C19_Witness ==
    /\ m_lastCall.op = "act" /\ m_lastCall.danger
    /\ m_actions_taken = 2
    /\ m_action = "escape"
    /\ ~m_model.danger_present
    /\ m_model.energy_level = -20

(***************************************************************************)
(* Claims about SimpleAgent (SpecSimple)                                   *)
(***************************************************************************)

\* the rule conditions in the order the claim gives
C5_Order == << T_hot, T_cold, T_dark, T_bright, T_hungry, T_tired, T_noise, T_danger >>

\* the action bound to a condition
C5_ActionOf(condition) ==
    CASE condition = T_hot -> "turn_on_ac"
      [] condition = T_cold -> "turn_on_heater"
      [] condition = T_dark -> "turn_on_light"
      [] condition = T_bright -> "close_blinds"
      [] condition = T_hungry -> "find_food"
      [] condition = T_tired -> "rest"
      [] condition = T_noise -> "investigate"
      [] condition = T_danger -> "escape"

\* the conditions found in a percept, as positions of C5_Order
C5_Matching(percept) == { i \in 1..Len(C5_Order) : Contains(C5_Order[i], percept) }

\* C5: act() returns the action of the earliest-declared rule whose condition
\* is a substring of the latest percept, and do_nothing when there is none (or
\* no percept yet); the result depends on the latest percept alone.
C5_EarliestRuleWins ==
    [][ s_actions_taken' = s_actions_taken + 1 =>
        s_action' =
            IF s_percepts = << >> \/ C5_Matching(s_percepts[Len(s_percepts)]) = {}
            THEN "do_nothing"
            ELSE LET first == CHOOSE i \in C5_Matching(s_percepts[Len(s_percepts)]) :
                                \A j \in C5_Matching(s_percepts[Len(s_percepts)]) : i <= j
                 IN  C5_ActionOf(C5_Order[first]) ]_vars

\* C5 witness: the latest percept has the conditions of three rules (noise,
\* tired, dark) and act() returned the action of the earliest, dark
C5_Witness ==
    /\ s_actions_taken > 0
    /\ s_percepts # << >>
    /\ s_percepts[Len(s_percepts)] = <<"n", "o", "i", "s", "e", " ", "t", "i", "r", "e", "d", " ", "d", "a", "r", "k">>
    /\ Cardinality(C5_Matching(s_percepts[Len(s_percepts)])) = 3
    /\ s_action = "turn_on_light"

(***************************************************************************)
(* Claims about LLMAgent (SpecLLM)                                         *)
(***************************************************************************)

\* C7: process_tool_use(action, input) with an action that is no key of the
\* tool registry returns the not-found string for that name, invokes no tool
\* function, does not raise, and leaves the registry and the memory unchanged.
C7_UnknownToolNotFound ==
    [][ ( /\ l_op'.op = "process_tool_use"
          /\ \A i \in 1..Len(l_names) : l_names[i] # l_op'.action )
        => /\ l_result' = <<"T", "o", "o", "l", " ", "'">> \o l_op'.action \o <<"'", " ", "n", "o", "t", " ", "f", "o", "u", "n", "d", ".">>
           /\ l_invoked' = << >>
           /\ ~l_raised'
           /\ l_names' = l_names
           /\ l_tools' = l_tools
           /\ l_memory' = l_memory ]_vars

\* C7 witness: translate is not registered, the memory is not empty, and
\* process_tool_use("translate", ...) returned the not-found string
C7_Witness ==
    /\ l_op.op = "process_tool_use"
    /\ l_op.action = <<"t", "r", "a", "n", "s", "l", "a", "t", "e">>
    /\ \A i \in 1..Len(l_names) : l_names[i] # <<"t", "r", "a", "n", "s", "l", "a", "t", "e">>
    /\ l_memory # << >>
    /\ l_result = <<"T", "o", "o", "l", " ", "'", "t", "r", "a", "n", "s", "l", "a", "t", "e", "'", " ", "n", "o", "t", " ", "f", "o", "u", "n", "d", ".">>

\* the last call invoked a tool function that raised
C8_ToolFailed == l_invoked # << >> /\ l_invoked[1].func = "failing"

\* C8: when a registered tool's function raises, process_tool_use returns the
\* error string; the enclosing process() returns a text reply with that error
\* string and appends the assistant record; and every process() call, the
\* next one included, returns a reply and leaves the user record and the
\* assistant record with that reply as the last two of the memory.
C8_FailureContained ==
    /\ (l_op.op = "process_tool_use" /\ C8_ToolFailed)
        => /\ ~l_raised
           /\ l_result = <<"E", "r", "r", "o", "r", " ", "u", "s", "i", "n", "g", " ", "t", "o", "o", "l", " ", "'">> \o l_op.action \o <<"'", ":", " ">> \o FailingMessage
    /\ (l_op.op = "process" /\ C8_ToolFailed)
        => \E i \in 1..Len(l_names) :
            l_result = <<"I", " ", "u", "s", "e", "d", " ">> \o l_names[i] \o <<" ", "t", "o", " ", "h", "e", "l", "p", " ", "a", "n", "s", "w", "e", "r", " ", "y", "o", "u", "r", " ", "q", "u", "e", "s", "t", "i", "o", "n", ".", " ">>
                       \o <<"E", "r", "r", "o", "r", " ", "u", "s", "i", "n", "g", " ", "t", "o", "o", "l", " ", "'">> \o l_names[i] \o <<"'", ":", " ">> \o FailingMessage
    /\ l_op.op = "process"
        => /\ ~l_raised
           /\ l_result # None
           /\ Len(l_memory) >= 2
           /\ l_memory[Len(l_memory) - 1] = [role |-> "user", content |-> l_op.user_input]
           /\ l_memory[Len(l_memory)] = [role |-> "assistant", content |-> l_result]

\* C8 witness: the first process() call met a failing tool and recorded the
\* error reply; the next process() call used a working tool and recorded its
\* reply
C8_Witness ==
    /\ l_op.op = "process"
    /\ Len(l_memory) = 4
    /\ Contains(<<"E", "r", "r", "o", "r", " ", "u", "s", "i", "n", "g", " ", "t", "o", "o", "l", " ", "'">>, l_memory[2].content)
    /\ l_invoked # << >> /\ l_invoked[1].func # "failing"
    /\ ~l_raised
    /\ l_memory[4].content = l_result

\* the names registered so far
C9_Names == { l_history[i].name : i \in 1..Len(l_history) }

\* the first and the most recent registration under a name
C9_First(name) ==
    CHOOSE i \in 1..Len(l_history) :
        l_history[i].name = name /\ \A j \in 1..(i - 1) : l_history[j].name # name
C9_Last(name) ==
    CHOOSE i \in 1..Len(l_history) :
        l_history[i].name = name /\ \A j \in (i + 1)..Len(l_history) : l_history[j].name # name

\* the places of the text where sub starts
C9_Places(sub, text) ==
    { i \in 1..(Len(text) - Len(sub) + 1) : SubSeq(text, i, i + Len(sub) - 1) = sub }

\* how the prompt shows a name, and a name with its description
C9_NameEntry(name) == <<" ", " ", " ", " ">> \o JsonString(<<"n", "a", "m", "e">>) \o <<":", " ">> \o JsonString(name) \o <<",">>
C9_Entry(name, description) ==
    C9_NameEntry(name) \o << "\n" >> \o <<" ", " ", " ", " ">> \o JsonString(<<"d", "e", "s", "c", "r", "i", "p", "t", "i", "o", "n">>) \o <<":", " ">>
    \o JsonString(description) \o << "\n" >>

\* C9: the text get_available_tools_prompt() returns lists every registered
\* name exactly once, followed by the description of the most recent
\* registration under that name, the names in the order of their first
\* registration; and it has as many entries as there are names.
C9_PromptListsTools ==
    l_op.op = "get_available_tools_prompt" =>
        /\ \A n \in C9_Names :
            /\ Cardinality(C9_Places(C9_NameEntry(n), l_result)) = 1
            /\ C9_Places(C9_Entry(n, l_history[C9_Last(n)].description), l_result)
                = C9_Places(C9_NameEntry(n), l_result)
        /\ \A a, b \in C9_Names :
            C9_First(a) < C9_First(b) =>
                \A i \in C9_Places(C9_NameEntry(a), l_result) :
                    \A j \in C9_Places(C9_NameEntry(b), l_result) : i < j
        /\ Cardinality(C9_Places(<<" ", " ", " ", " ">> \o JsonString(<<"n", "a", "m", "e">>) \o <<":", " ">>, l_result))
            = Cardinality(C9_Names)

\* C9 witness: get_weather (the first default tool) was registered again with
\* another description, translate was registered twice, and the prompt was
\* asked for
C9_Witness ==
    /\ l_op.op = "get_available_tools_prompt"
    /\ Len(l_history) = 5
    /\ l_history[4].name = <<"t", "r", "a", "n", "s", "l", "a", "t", "e">>
    /\ l_history[5].name = <<"t", "r", "a", "n", "s", "l", "a", "t", "e">>
    /\ l_history[4].description # l_history[5].description
    /\ Cardinality(C9_Places(C9_NameEntry(<<"t", "r", "a", "n", "s", "l", "a", "t", "e">>), l_result)) = 1

\* C9 witness, second case: a default name registered again keeps its place
C9_WitnessOrder ==
    /\ l_op.op = "get_available_tools_prompt"
    /\ l_history[Len(l_history)].name = N_get_weather
    /\ l_history[Len(l_history)].description = <<"W", "e", "a", "t", "h", "e", "r", " ", "v", "2">>
    /\ l_names[1] = N_get_weather

(***************************************************************************)
(* Claims about the calculate tool (SpecCalc)                              *)
(***************************************************************************)

\* a result string, as opposed to an error string
C10_IsResult(text) == Len(text) >= 8 /\ SubSeq(text, 1, 8) = <<"R", "e", "s", "u", "l", "t", ":", " ">>

\* an expression built from numeric literals and the operators + - * /
C10_Arithmetic(expression) ==
    /\ \A i \in 1..Len(expression) :
        expression[i] \in Digits \cup { "+", "-", "*", "/", " ", "." }
    /\ ~Contains(<<"*", "*">>, expression)
    /\ ~Contains(<<"/", "/">>, expression)

\* C10: calculate returns a result string only for expressions built from
\* numeric literals and + - * /; for every other input it returns an error
\* string.  (Violated: eval evaluates every Python expression, "2**2" and
\* "(2).real" among them.)
C10_OnlyArithmeticEvaluated ==
    c_pc = "returned" => (C10_IsResult(c_result) => C10_Arithmetic(c_expression))

\* the part of C10 that the code meets: "2+2" gives a result with 4, and a
\* text that is no expression gives an error string
C10_Observed ==
    /\ (c_pc = "returned" /\ c_expression = <<"2", "+", "2">>) => c_result = <<"R", "e", "s", "u", "l", "t", ":", " ", "4">>
    /\ (c_pc = "returned" /\ c_expression = <<"i", "m", "p", "o", "r", "t", " ", "o", "s">>)
        => SubSeq(c_result, 1, 19) = <<"E", "r", "r", "o", "r", " ", "c", "a", "l", "c", "u", "l", "a", "t", "i", "n", "g", ":", " ">>


(***************************************************************************)
(* Claims about process() of LLMAgent (SpecLLM)                            *)
(***************************************************************************)

\* a text of the form digits, one of + - * /, digits
C17_IsArithmetic(e) ==
    \E k \in 2..(Len(e) - 1) :
        /\ e[k] \in { "+", "-", "*", "/" }
        /\ \A i \in 1..(k - 1) : e[i] \in Digits
        /\ \A i \in (k + 1)..Len(e) : e[i] \in Digits

\* C17: in every process() call the calculate handler is invoked only with a
\* text of the form digits, operator, digits.  (Violated: the pattern allows
\* any whitespace around the operator and only spaces are removed.)
C17_CalculateArgumentForm ==
    l_op.op = "process" =>
        \A i \in 1..Len(l_invoked) :
            l_invoked[i].func = "calculate" => C17_IsArithmetic(l_invoked[i].argument)

\* the part of C17 that the code meets: spaces are removed from the first
\* match, and the fallback is 2+2
C17_Observed ==
    /\ (l_op.op = "process" /\ l_op.user_input = <<"C", "a", "l", "c", "u", "l", "a", "t", "e", " ", "1", "2", "5", " ", "*", " ", "3", "7">>
            /\ l_invoked # << >> /\ l_invoked[1].func = "calculate")
        => l_invoked[1].argument = <<"1", "2", "5", "*", "3", "7">>
    /\ (l_op.op = "process" /\ l_op.user_input = <<"a", "d", "d", " ", "3">> \o Tab \o <<"+">> \o Tab \o <<"4">>
            /\ l_invoked # << >> /\ l_invoked[1].func = "calculate")
        => l_invoked[1].argument = <<"3">> \o Tab \o <<"+">> \o Tab \o <<"4">>

\* the memory holds user and assistant records in turn
C18_WellFormed ==
    /\ Len(l_memory) % 2 = 0
    /\ \A i \in 1..Len(l_memory) :
            l_memory[i].role = IF i % 2 = 1 THEN "user" ELSE "assistant"

\* C18: the memory always holds user and assistant records in turn, an even
\* number of them; it changes only in a process() call, which returns a text
\* and appends to the unchanged earlier records a user record with its input
\* and an assistant record with the text it returned (so n calls leave 2n
\* records).
C18_MemoryAppendOnly ==
    /\ []C18_WellFormed
    /\ [][ /\ l_memory' # l_memory =>
                /\ l_op'.op = "process"
                /\ ~l_raised'
                /\ l_memory' = l_memory \o
                        << [role |-> "user", content |-> l_op'.user_input],
                           [role |-> "assistant", content |-> l_result'] >>
           /\ l_op'.op = "process" =>
                /\ Len(l_memory') >= 2
                /\ l_memory'[Len(l_memory')].content = l_result' ]_vars

\* C18 witness: two process() calls, the second with a tool that failed,
\* left four records, the last two for the second call
C18_Witness ==
    /\ l_op.op = "process"
    /\ Len(l_memory) = 4
    /\ C18_WellFormed
    /\ l_invoked # << >> /\ l_invoked[1].func = "failing"
    /\ l_memory[1].content # l_memory[3].content
    /\ l_memory[3].content = l_op.user_input
    /\ l_memory[4].content = l_result

\* C20: the reply of process(input) and the handler calls it makes are those
\* of an agent with the same registry and an empty memory, whatever the
\* memory holds.
C20_MemoryIndependent ==
    [][ (l_op'.op = "process" /\ l_memory' # l_memory) =>
        /\ l_result' = ProcessCall(l_tools, << >>, l_op'.user_input).outcome.text
        /\ l_invoked' = ProcessCall(l_tools, << >>, l_op'.user_input).outcome.calls ]_vars

\* C20 witness: a process() call on a memory that held another input used
\* a tool and returned what an agent with an empty memory returns
C20_Witness ==
    /\ l_op.op = "process"
    /\ Len(l_memory) = 4
    /\ l_memory[1].content # l_op.user_input
    /\ LLMResponses[l_memory[1].content].action # LLMResponses[l_op.user_input].action
    /\ l_invoked # << >>
    /\ l_result = ProcessCall(l_tools, << >>, l_op.user_input).outcome.text

(***************************************************************************)
(* Claims about simulate_llm_response (SpecSimulate)                       *)
(***************************************************************************)

\* the triggers of the three intents, as the claims name them
C11_WeatherTrigger(prompt) == Contains(<<"w", "e", "a", "t", "h", "e", "r">>, Lower(prompt))
C11_CalculationTrigger(prompt) ==
    \/ Contains(<<"c", "a", "l", "c", "u", "l", "a", "t", "e">>, Lower(prompt))
    \/ \E i \in 1..Len(prompt) : prompt[i] \in { "+", "-", "*", "/" }
C11_SearchTrigger(prompt) ==
    \/ Contains(<<"s", "e", "a", "r", "c", "h">>, Lower(prompt))
    \/ Contains(<<"f", "i", "n", "d">>, Lower(prompt))
    \/ Contains(<<"l", "o", "o", "k", " ", "u", "p">>, Lower(prompt))

\* C11: simulate_llm_response gives every input exactly one intent: weather
\* when the weather trigger matches; calculation when the calculation trigger
\* matches and the weather trigger does not; search when the search trigger
\* matches and neither of the other two does; and the conversational reply
\* exactly when no trigger matches.
C11_FixedCheckOrder ==
    p_pc = "returned" =>
        /\ C11_WeatherTrigger(p_prompt) => p_response.action = N_get_weather
        /\ (C11_CalculationTrigger(p_prompt) /\ ~C11_WeatherTrigger(p_prompt))
            => p_response.action = N_calculate
        /\ ( /\ C11_SearchTrigger(p_prompt)
             /\ ~C11_WeatherTrigger(p_prompt)
             /\ ~C11_CalculationTrigger(p_prompt) )
            => p_response.action = N_search
        /\ p_response.action \in { N_get_weather, N_calculate, N_search, None }
        /\ (p_response.action = None) <=> (p_response.response # None)
        /\ (p_response.response # None)
            <=> ( /\ ~C11_WeatherTrigger(p_prompt)
                  /\ ~C11_CalculationTrigger(p_prompt)
                  /\ ~C11_SearchTrigger(p_prompt) )

\* C11 witness: an input with the triggers of all three intents was
\* classified as weather
C11_Witness ==
    /\ p_pc = "returned"
    /\ p_prompt = <<"F", "i", "n", "d", " ", "t", "h", "e", " ", "w", "e", "a", "t", "h", "e", "r", " ", "2", "+", "2">>
    /\ C11_WeatherTrigger(p_prompt)
    /\ C11_CalculationTrigger(p_prompt)
    /\ C11_SearchTrigger(p_prompt)
    /\ p_response.action = N_get_weather

\* the trigger words of the search intent
C15_Triggers == { <<"s", "e", "a", "r", "c", "h">>, <<"f", "i", "n", "d">>, <<"l", "o", "o", "k", " ", "u", "p">> }

\* C15: for every input classified as a search intent, the query has none of
\* the trigger words left in it, in whatever letter case they were
\* recognised.  (Violated: the words are recognised in any letter case and
\* removed in lower case only, and removing one word can put another together.)
C15_QueryFreeOfTriggers ==
    (p_pc = "returned" /\ p_response.action = N_search) =>
        \A word \in C15_Triggers : ~Contains(word, Lower(p_response.action_input))

\* the part of C15 that the code meets: the words written in lower case are
\* removed and the rest is stripped
C15_Observed ==
    /\ (p_pc = "returned" /\ p_prompt = <<"s", "e", "a", "r", "c", "h", " ", "c", "a", "t", "s">>) => p_response.action_input = <<"c", "a", "t", "s">>
    /\ (p_pc = "returned" /\ p_prompt = <<" ", " ", "f", "i", "n", "d", " ", " ", "c", "a", "t", "s", " ", " ">>)
        => p_response.action_input = <<"c", "a", "t", "s">>

(***************************************************************************)
(* Claims about update_model (SpecUpdate)                                  *)
(***************************************************************************)

\* the token table of update_model: token, field, value assigned
C12_Table ==
    { << T_cold, "room_temperature", "cold" >>, << T_hot, "room_temperature", "hot" >>,
      << T_dark, "room_lighting", "dark" >>, << T_bright, "room_lighting", "bright" >>,
      << T_noise, "noise_level", "noisy" >>,
      << T_danger, "danger_present", TRUE >>, << T_smoke, "danger_present", TRUE >>,
      << T_morning, "time_of_day", "morning" >>, << T_night, "time_of_day", "night" >> }

\* the rows of the table whose token occurs in the percept in any letter case
C12_Matching(percept) == { row \in C12_Table : Contains(row[1], Lower(percept)) }

\* C12: after update_model(percept), every field with a table token that
\* occurs in the percept, in any letter case, holds the value of such a token
\* (of one of them when several tokens of the same field occur), and hungry
\* in any letter case adds 4 to last_meal.  (Violated: the code looks for the
\* tokens in lower case only.)
C12_AllTokensApplied ==
    u_pc = "returned" =>
        /\ \A row \in C12_Matching(u_percept) :
                \E other \in C12_Matching(u_percept) :
                    other[2] = row[2] /\ u_after[row[2]] = other[3]
        /\ Contains(T_hungry, Lower(u_percept)) => u_after.last_meal = u_before.last_meal + 4

\* the part of C12 that the code meets: the tokens written in lower case
C12_Observed ==
    u_pc = "returned" =>
        /\ \A row \in { r \in C12_Table : Contains(r[1], u_percept) } :
                \E other \in { r \in C12_Table : Contains(r[1], u_percept) } :
                    other[2] = row[2] /\ u_after[row[2]] = other[3]
        /\ Contains(T_hungry, u_percept) => u_after.last_meal = u_before.last_meal + 4

\* no table token occurs in the percept as the table writes it (so none of
\* the percepts without a token in any letter case is left out)
C13_NoToken(percept) ==
    /\ \A row \in C12_Table : ~Contains(row[1], percept)
    /\ ~Contains(T_hungry, percept)

\* C13: update_model returns a model for every percept; for a percept with
\* no table token it changes no field except energy_level, which goes down
\* by 2, or to 0 when that would be below 0.
C13_OnlyDecay ==
    u_pc = "returned" =>
        /\ DOMAIN u_after = DOMAIN u_before
        /\ C13_NoToken(u_percept) =>
            /\ \A field \in DOMAIN u_before \ { "energy_level" } :
                    u_after[field] = u_before[field]
            /\ u_after.energy_level =
                    IF u_before.energy_level - 2 < 0 THEN 0 ELSE u_before.energy_level - 2

\* C13 witness: a percept with no token, on a model with danger present and
\* energy_level 0: the floor applies and the other fields are kept
C13_Witness ==
    /\ u_pc = "returned"
    /\ u_percept = <<"a", "l", "l", " ", "c", "a", "l", "m">>
    /\ C13_NoToken(u_percept)
    /\ u_before.energy_level = 0
    /\ u_before.danger_present
    /\ u_before.room_temperature = "cold"
    /\ u_after.energy_level = 0
    /\ u_after.danger_present

=============================================================================
